---- MODULE Spec2Model ----
(***************************************************************************)
(* Obsiscribe: microphone capture (AudioRecorder), the plugin workflow     *)
(* that hands a finalized clip to recognition (SpeechToTextPlugin), and    *)
(* the offline recognizer adapter (MoonshineTranscriber) driving the       *)
(* sherpa-onnx engine.                                                     *)
(*                                                                         *)
(* Asynchronous methods are split at their await points: the part of a     *)
(* method that runs in one JavaScript turn is one action.                  *)
(***************************************************************************)
EXTENDS Integers, Sequences, FiniteSets, TLC

VARIABLES
  \* ---- MoonshineTranscriber.ts, module level
  sherpaOnnx,            \* the loaded engine module, or NoModule (null)
  sherpaFailed,          \* loading the engine module failed once
  \* ---- MoonshineTranscriber instance
  settings,              \* "null" or the configured language
  modelLoaded,           \* this.modelLoaded
  microphoneTranscriber, \* this.microphoneTranscriber: 0 (null) or a recognizer handle
  pending,               \* continuations suspended at `await loadSherpaONNX()`, FIFO
  \* ---- the engine (sherpa-onnx), as the adapter's calls observe it
  recognizersMade,       \* number of recognizer handles created so far
  streamsMade,           \* number of stream handles created so far
  engineLog,             \* every engine entry point invoked, in order
  \* ---- what the callers observed
  trCalls,               \* number of transcribe() calls issued so far
  loadCalls,             \* number of loadModel() runs that went on to load
  trResult,              \* outcome of the transcribe() call that completed last
  loadResult,            \* outcome of the initialize/loadModel/setLanguage call that completed last
  lifecycle,             \* history: "new", "ready" (a load succeeded), "reloading"
                         \* (setLanguage dropped the loaded model), "disposed"
  \* ---- AudioRecorder instance
  isCurrentlyRecording,  \* this.isCurrentlyRecording
  recordedChunks,        \* this.recordedChunks
  audioStream,           \* this.audioStream: 0 (null) or a stream id
  audioContext,          \* this.audioContext/processor/source: 0 (undefined) or a session id
  \* ---- the browser's media objects
  ctxState,              \* session id -> "none" | "running" | "closed"
  ctxRate,               \* session id -> sample rate of its AudioContext
  liveTracks,            \* streams whose tracks have not been stopped
  firing,                \* processors whose onaudioprocess events may still be delivered
  sessionsMade,          \* number of getUserMedia streams handed out so far
  \* ---- calls in flight on the recorder
  startCall,             \* startRecording() suspended at `await getUserMedia`
  stopCall,              \* stopRecording() suspended at one of its awaits
  \* ---- what the callers observed
  recCalls,              \* number of recorder API calls issued so far
  recResult,             \* outcome of the recorder call that completed last
  delivered,             \* history: chunks the armed callback appended in the current session
  handedOver,            \* clips SpeechToTextPlugin.stopRecording passed to transcribe()
  origin,                \* history: the processor that delivered each chunk of recordedChunks
  \* ---- UIController, and a recorder call issued while another is in flight
  isRecording,           \* UIController.isRecording
  overlapCall,           \* a second startRecording() suspended at `await getUserMedia`
  \* ---- the helpers of MoonshineTranscriber, applied on their own
  probe,                 \* the helper to apply and its arguments
  answer                 \* what the helper returned

trVars == <<sherpaOnnx, sherpaFailed, settings, modelLoaded, microphoneTranscriber,
            pending, recognizersMade, streamsMade, engineLog, trCalls, loadCalls,
            trResult, loadResult, lifecycle>>

recVars == <<isCurrentlyRecording, recordedChunks, audioStream, audioContext, ctxState,
             ctxRate, liveTracks, firing, sessionsMade, startCall, stopCall, recCalls,
             recResult, delivered, handedOver, origin>>

uiVars == <<isRecording, overlapCall>>

helperVars == <<probe, answer>>

vars == <<trVars, recVars, uiVars, helperVars>>

(***************************************************************************)
(* Bounds of the model.                                                    *)
(***************************************************************************)
MaxTranscribes == 2    \* transcribe() calls issued in one behaviour
MaxLoads == 2          \* loadModel() runs that go on to load the engine
MaxPending == 2        \* continuations suspended at once
MaxSamples == 3        \* length of the sample sequences given to resampleAudio
MaxBytes == 4          \* length of the byte buffers given to the conversion on its own
MaxAnalyzed == 3       \* length of the sample sequences enumerated for analyzeAudio
MaxClipSamples == 60   \* samples of the clips whose duration is computed on its own
MaxRecCalls == 5       \* AudioRecorder API calls issued in one behaviour
MaxSessions == 2       \* microphone streams opened in one behaviour
MaxChunks == 2         \* chunks accumulated in one session
BufferSize == 1        \* samples per onaudioprocess event (4096 in the program)

(***************************************************************************)
(* Program constants.                                                      *)
(***************************************************************************)
RequiredRate == 16000
Int16Scale == 32768
DefaultRate == 48000

Min(a, b) == IF a < b THEN a ELSE b

Max(a, b) == IF a > b THEN a ELSE b

RECURSIVE Gcd(_, _)
Gcd(a, b) == IF b = 0 THEN a ELSE Gcd(b, a % b)

RECURSIVE Concat(_)
Concat(ss) == IF ss = <<>> THEN <<>> ELSE Head(ss) \o Concat(Tail(ss))

(***************************************************************************)
(* Values.                                                                 *)
(***************************************************************************)
EntryPoints == {"createOfflineRecognizer", "createOfflineStream", "acceptWaveformOffline",
                "decodeOfflineStream", "getOfflineStreamResultAsJson"}

\* The engine modules `require` may yield: the complete API, or one entry point absent.
ModuleApis == {EntryPoints, EntryPoints \ {"createOfflineRecognizer"},
               EntryPoints \ {"decodeOfflineStream"}}

NoModule == [present |-> FALSE, api |-> {}]

Modules == {[present |-> TRUE, api |-> a] : a \in ModuleApis}

Languages == {"en", "es", "fr"}

Rat(n, d) == [num |-> n, den |-> d]

\* AudioData values handed to transcribe(): 16-bit little-endian PCM bytes, the
\* capture rate, and the duration the recorder declared.
InputClips ==
  { [buffer |-> <<0, 64, 0, 192>>,        sampleRate |-> 16000, duration |-> Rat(2, 16000)],
    [buffer |-> <<0, 64, 0, 0, 0, 192>>,  sampleRate |-> 48000, duration |-> Rat(3, 48000)] }

NoClip == [buffer |-> <<>>, sampleRate |-> 0, duration |-> Rat(0, 1)]

\* JSON payloads getOfflineStreamResultAsJson may return, already parsed. A string is
\* a sequence of characters; an object is its entries in order.
Str(key, s) == [key |-> key, type |-> "string", str |-> s, arr |-> <<>>]

Arr(key, a) == [key |-> key, type |-> "array", str |-> <<>>, arr |-> a]

Obj(fields) == [kind |-> "object", fields |-> fields, str |-> <<>>]

ResultJsons ==
  { Obj(<<Str("text", <<" ", "h", "i">>)>>),
    Obj(<<Str("text", <<" ">>)>>),
    Obj(<<Str("text", <<" ">>), Str("transcript", <<"a", "b">>)>>),
    Obj(<<Str("lang", <<"e", "n">>), Arr("timestamps", << <<"o">>, <<"k">> >>)>>),
    Obj(<<Str("text", <<>>), Arr("timestamps", << <<"o">>, <<>>, <<"k">> >>)>>),
    Obj(<<Arr("text", << <<"x">> >>)>>),
    Obj(<<Str("recognition", <<"r", "c">>), Str("transcript", <<"t", " ">>)>>),
    [kind |-> "string", fields |-> <<>>, str |-> <<"y", " ">>],
    [kind |-> "null", fields |-> <<>>, str |-> <<>>],
    [kind |-> "unparsable", fields |-> <<>>, str |-> <<>>] }

\* The payloads the engine returns in the behaviours of the transcriber: a text, a
\* blank text, the JSON null and a payload JSON.parse rejects.
EngineJsons == {j \in ResultJsons :
                  \/ j.kind \in {"null", "unparsable"}
                  \/ j.kind = "object" /\ Len(j.fields) = 1 /\ j.fields[1].key = "text"
                       /\ j.fields[1].type = "string"}

(***************************************************************************)
(* MoonshineTranscriber: pure helpers.                                     *)
(***************************************************************************)
\* Variant: the view is a Uint16Array.
Uint16LE(lo, hi) == lo + 256 * hi

\* One little-endian signed 16-bit sample (the Int16Array view of the buffer).
Int16LE(lo, hi) ==
  LET u == lo + 256 * hi
  IN IF u >= Int16Scale THEN u - 2 * Int16Scale ELSE u

\* Variant: the view is taken over the buffer as it came.
NoPadding(buffer) == buffer

\* An odd-length buffer is copied into one a byte longer, the last byte zero.
PadToEven(buffer) == IF Len(buffer) % 2 # 0 THEN Append(buffer, 0) ELSE buffer

\* Variant: the zero byte is appended to the caller's buffer.
PaddedInPlace(buffer) == IF Len(buffer) % 2 # 0 THEN Append(buffer, 0) ELSE buffer

\* The caller's ArrayBuffer after the conversion: the padding goes to a new
\* ArrayBuffer, the caller's is only read.
CallerBuffer(buffer) == buffer

\* Samples are exact rationals num/den (every int16 / 32768 is exact in float32).
convertAudioBufferToFloat32Array(buffer) ==
  LET audioBuffer == PadToEven(buffer)
      n == Len(audioBuffer) \div 2
  IN [i \in 1..n |->
        Rat(Int16LE(audioBuffer[2 * i - 1], audioBuffer[2 * i]), Int16Scale)]

(***************************************************************************)
(* IEEE-754 binary64 arithmetic, as far as resampleAudio uses it: the       *)
(* division and the product behind `ratio`, `outputLength` and              *)
(* `inputIndex`, rounded to nearest, ties to even. A positive number is     *)
(* m * 2^e with 2^52 <= m < 2^53; m is held as three limbs <<hi, mid, lo>>  *)
(* in base 2^20, so that every step stays inside 32-bit integers.           *)
(***************************************************************************)
LimbBase == 1024 * 1024

Big(n) == <<0, 0, n>>

Two52 == <<4096, 0, 0>>

Two53 == <<8192, 0, 0>>

BigDouble(x) ==
  LET l0 == 2 * x[3]
      l1 == 2 * x[2] + l0 \div LimbBase
      l2 == 2 * x[1] + l1 \div LimbBase
  IN <<l2, l1 % LimbBase, l0 % LimbBase>>

BigHalf(x) ==
  LET h1 == x[2] + LimbBase * (x[1] % 2)
      h0 == x[3] + LimbBase * (h1 % 2)
  IN <<x[1] \div 2, h1 \div 2, h0 \div 2>>

BigGeq(x, y) ==
  \/ x[1] > y[1]
  \/ x[1] = y[1] /\ x[2] > y[2]
  \/ x[1] = y[1] /\ x[2] = y[2] /\ x[3] >= y[3]

\* x - y for x >= y.
BigSub(x, y) ==
  LET d0 == x[3] - y[3]
      b0 == IF d0 < 0 THEN 1 ELSE 0
      d1 == x[2] - y[2] - b0
      b1 == IF d1 < 0 THEN 1 ELSE 0
  IN <<x[1] - y[1] - b1, d1 + b1 * LimbBase, d0 + b0 * LimbBase>>

BigInc(x) ==
  LET l0 == x[3] + 1
      l1 == x[2] + l0 \div LimbBase
  IN <<x[1] + l1 \div LimbBase, l1 % LimbBase, l0 % LimbBase>>

\* x * k for a small integer k.
BigTimes(x, k) ==
  LET l0 == x[3] * k
      l1 == x[2] * k + l0 \div LimbBase
  IN <<x[1] * k + l1 \div LimbBase, l1 % LimbBase, l0 % LimbBase>>

Float(m, e) == [m |-> m, e |-> e]

FloatZero == Float(Big(0), 0)

\* Scale an integer mantissa up to 53 bits.
RECURSIVE Widen(_, _)
Widen(m, e) == IF BigGeq(m, Two52) THEN Float(m, e) ELSE Widen(BigDouble(m), e - 1)

\* Cut a mantissa down to 53 bits and round: `half` is the last bit cut off,
\* `sticky` tells whether any bit cut off before it was set.
RECURSIVE Narrow(_, _, _, _)
Narrow(m, e, half, sticky) ==
  IF BigGeq(m, Two53)
  THEN Narrow(BigHalf(m), e + 1, m[3] % 2 = 1, sticky \/ half)
  ELSE IF half /\ (sticky \/ m[3] % 2 = 1)
       THEN IF BigInc(m) = Two53 THEN Float(Two52, e + 1) ELSE Float(BigInc(m), e)
       ELSE Float(m, e)

\* The double equal to a non-negative integer below 2^20.
FromInt(n) == IF n = 0 THEN FloatZero ELSE Widen(Big(n), 0)

\* Long division: after k more steps q holds k more quotient bits. (The test on q
\* makes TLC evaluate q at every step.)
RECURSIVE DivBits(_, _, _, _)
DivBits(r, d, q, k) ==
  IF k = 0 \/ q[3] < 0 THEN [q |-> q, r |-> r]
  ELSE IF BigGeq(r, d)
       THEN DivBits(BigDouble(BigSub(r, d)), d, BigInc(BigDouble(q)), k - 1)
       ELSE DivBits(BigDouble(r), d, BigDouble(q), k - 1)

\* x / y for y > 0.
FloatDiv(x, y) ==
  IF x.m = Big(0) THEN FloatZero
  ELSE LET qr == DivBits(x.m, y.m, Big(0), 55)
       IN Narrow(qr.q, x.e - y.e - 54, FALSE, qr.r # Big(0))

\* i * x for an integer 0 <= i < 2^10.
FloatTimes(i, x) ==
  IF i = 0 \/ x.m = Big(0) THEN FloatZero
  ELSE Narrow(BigTimes(x.m, i), x.e, FALSE, FALSE)

RECURSIVE BigShr(_, _)
BigShr(m, k) == IF k = 0 \/ m = Big(0) THEN m ELSE BigShr(BigHalf(m), k - 1)

\* Math.floor of a double below 2^31.
FloatFloor(x) ==
  LET m == IF x.e >= 0 THEN x.m ELSE BigShr(x.m, -x.e)
  IN m[2] * LimbBase + m[3]

\* Variant: every output sample is the mean of its two neighbours.
Averaged(a, b, r, q) == Rat(a.num + b.num, 2 * a.den)

\* Variant: the floor sample keeps its full weight.
Unweighted(a, b, r, q) == Rat(a.num * q + b.num * r, a.den * q)

\* a * (1 - fraction) + b * fraction for fraction = r / q.
Interpolated(a, b, r, q) == Rat(a.num * (q - r) + b.num * r, a.den * q)

\* `ratio = inputSampleRate / outputSampleRate`
resampleRatio(inputSampleRate, outputSampleRate) ==
  FloatDiv(FromInt(inputSampleRate), FromInt(outputSampleRate))

\* `outputLength = Math.floor(inputSamples.length / ratio)`
resampleLength(len, ratio) == FloatFloor(FloatDiv(FromInt(len), ratio))

\* `inputIndexFloor = Math.floor(i * ratio)`
inputIndexFloor(i, ratio) == FloatFloor(FloatTimes(i, ratio))

\* Variant: the neighbour is the next index, whether or not the input has it.
NextIndex(floorIndex, len) == floorIndex + 1

\* `inputIndexCeil = Math.min(inputIndexFloor + 1, inputSamples.length - 1)`
inputIndexCeil(floorIndex, len) == Min(floorIndex + 1, len - 1)

\* What arithmetic on a read outside a Float32Array (undefined) produces.
NaN == [num |-> 0, den |-> 0]

\* inputSamples[k], for a 0-based k.
ReadSample(inputSamples, k) ==
  IF k \in 0..(Len(inputSamples) - 1) THEN inputSamples[k + 1] ELSE NaN

\* Linear interpolation. ratio, outputLength and the input indices are computed in
\* binary64 as the code computes them; the blend weights are those of the exact
\* position i * inputSampleRate / outputSampleRate = i * p / q (the fraction the
\* code computes differs from it by less than 2^-40). Indices are 0-based in the
\* code, 1-based here.
resampleAudio(inputSamples, inputSampleRate, outputSampleRate) ==
  LET g == Gcd(inputSampleRate, outputSampleRate)
      p == inputSampleRate \div g
      q == outputSampleRate \div g
      len == Len(inputSamples)
      ratio == resampleRatio(inputSampleRate, outputSampleRate)
      outputLength == resampleLength(len, ratio)
  IN [j \in 1..outputLength |->
        LET i == j - 1
            floorIndex == inputIndexFloor(i, ratio)
            ceilIndex == inputIndexCeil(floorIndex, len)
            r == i * p - floorIndex * q
            a == ReadSample(inputSamples, floorIndex)
            b == ReadSample(inputSamples, ceilIndex)
        IN IF a = NaN \/ b = NaN THEN NaN ELSE Interpolated(a, b, r, q)]

\* The elements of the input resampleAudio reads: for each output index i, the
\* floor index and the ceil index, 0-based.
resampleReads(inputSamples, inputSampleRate, outputSampleRate) ==
  LET len == Len(inputSamples)
      ratio == resampleRatio(inputSampleRate, outputSampleRate)
  IN {[i |-> i, floor |-> inputIndexFloor(i, ratio),
       ceil |-> inputIndexCeil(inputIndexFloor(i, ratio), len)] :
        i \in 0..(resampleLength(len, ratio) - 1)}

\* Variant: the confidence is returned as summed up.
Unclamped(confidence) == confidence

\* Math.max(0.1, Math.min(0.95, confidence)), in hundredths.
Clamped(confidence) == Max(10, Min(95, confidence))

\* Variant: a high sample rate is held against the clip.
HighRatePenalised(sampleRate) ==
  IF sampleRate >= 44100 THEN -5 ELSE IF sampleRate < 16000 THEN -10 ELSE 0

\* The adjustment for the sample rate, in hundredths.
RateAdjustment(sampleRate) ==
  IF sampleRate >= 44100 THEN 5 ELSE IF sampleRate < 16000 THEN -10 ELSE 0

\* Confidence in hundredths, from the three fields of audioData the code reads:
\* duration (a rational; a zero denominator stands for NaN and the infinities, for
\* which the comparisons below come out as they do in IEEE arithmetic), sampleRate
\* and audioBuffer.byteLength. The sums 0.8 +- 0.1, 0.2, 0.05 round in binary64 to
\* within 3e-16 of the hundredths here, on the same side of both clamp limits.
calculateConfidence(duration, sampleRate, byteLength) ==
  LET byDuration == IF duration.num > 5 * duration.den THEN 10
                    ELSE IF duration.num < duration.den THEN -20 ELSE 0
      bySize == IF byteLength > 100000 THEN 5
                ELSE IF byteLength < 10000 THEN -10 ELSE 0
  IN Clamped(80 + byDuration + RateAdjustment(sampleRate) + bySize)

\* The TranscriptionResult transcribe() builds: one segment, carrying the text and
\* the confidence of the result.
TranscriptionResult(text, confidence, language) ==
  [text |-> text, confidence |-> confidence, segText |-> text,
   segConfidence |-> confidence, language |-> language]

RECURSIVE TrimLeft(_)
TrimLeft(s) == IF s # <<>> /\ Head(s) = " " THEN TrimLeft(Tail(s)) ELSE s

RECURSIVE TrimRight(_)
TrimRight(s) ==
  IF s # <<>> /\ s[Len(s)] = " " THEN TrimRight(SubSeq(s, 1, Len(s) - 1)) ELSE s

Trim(s) == TrimRight(TrimLeft(s))

\* result[key] of a parsed object: its entry, or the undefined entry.
Undefined == [key |-> "", type |-> "undefined", str |-> <<>>, arr |-> <<>>]

Field(result, key) ==
  LET hits == {i \in 1..Len(result.fields) : result.fields[i].key = key}
  IN IF result.kind = "object" /\ hits # {}
     THEN result.fields[CHOOSE i \in hits : TRUE]
     ELSE Undefined

\* JavaScript truthiness of a field value.
Truthy(v) == (v.type = "string" /\ v.str # <<>>) \/ v.type = "array"

\* `result.f && result.f.trim()` throws a TypeError for a truthy value that is no string.
TrimThrows(v) == Truthy(v) /\ v.type # "string"

NonBlank(v) == v.type = "string" /\ Trim(v.str) # <<>>

\* The first entry, in order, that is a string with non-blank content and length > 1.
RECURSIVE FirstStringValue(_)
FirstStringValue(fields) ==
  IF fields = <<>> THEN <<>>
  ELSE LET v == Head(fields)
       IN IF v.type = "string" /\ Trim(v.str) # <<>> /\ Len(v.str) > 1
          THEN Trim(v.str)
          ELSE FirstStringValue(Tail(fields))

\* timestamps.map(ts => ts.text || ...).filter(truthy strings).join(' ')
RECURSIVE JoinTexts(_)
JoinTexts(arr) ==
  IF arr = <<>> THEN <<>>
  ELSE LET rest == JoinTexts(Tail(arr))
       IN IF Head(arr) = <<>> THEN rest
          ELSE IF rest = <<>> THEN Head(arr)
          ELSE Head(arr) \o <<" ">> \o rest

\* The text extracted from the parsed payload, or a thrown TypeError.
ExtractText(result) ==
  LET text == Field(result, "text")
      transcript == Field(result, "transcript")
      recognition == Field(result, "recognition")
      timestamps == Field(result, "timestamps")
      first ==
        IF NonBlank(text) THEN Trim(text.str)
        ELSE IF NonBlank(transcript) THEN Trim(transcript.str)
        ELSE IF NonBlank(recognition) THEN Trim(recognition.str)
        ELSE IF result.kind = "string" /\ Trim(result.str) # <<>> THEN Trim(result.str)
        ELSE FirstStringValue(result.fields)
      throws ==
        \/ result.kind = "null"
        \/ TrimThrows(text)
        \/ ~NonBlank(text) /\ TrimThrows(transcript)
        \/ ~NonBlank(text) /\ ~NonBlank(transcript) /\ TrimThrows(recognition)
      fromTimestamps ==
        IF first = <<>> /\ timestamps.type = "array" /\ timestamps.arr # <<>>
        THEN Trim(JoinTexts(timestamps.arr))
        ELSE <<>>
  IN [throws |-> throws,
      text |-> IF first # <<>> THEN first ELSE fromTimestamps]

(***************************************************************************)
(* loadSherpaONNX: returns the cached module, or tries the native module,  *)
(* then the npm module; a failure of both is remembered and never retried. *)
(* `ret` is the value the call returns.                                    *)
(***************************************************************************)
loadSherpaONNX(ret) ==
  IF sherpaOnnx.present \/ sherpaFailed
  THEN ret = sherpaOnnx /\ UNCHANGED <<sherpaOnnx, sherpaFailed>>
  ELSE IF ret = NoModule
       THEN sherpaFailed' = TRUE /\ UNCHANGED sherpaOnnx
       ELSE sherpaOnnx' = ret /\ UNCHANGED sherpaFailed

\* History kept with a suspended call: `overlap`, another transcribe() was in
\* flight when the call was made.
Continuation(kind, via, tid, audioData, audioSamples, finalSampleRate, sherpa) ==
  [kind |-> kind, via |-> via, tid |-> tid, audioData |-> audioData,
   audioSamples |-> audioSamples, finalSampleRate |-> finalSampleRate,
   sherpa |-> sherpa, lifeAtCall |-> lifecycle,
   overlap |-> \E i \in 1..Len(pending) : pending[i].kind = "transcribe"]

\* `created`: the call invoked createOfflineRecognizer.
LoadOutcome(via, outcome, lifeAtCall, created) ==
  [op |-> via, outcome |-> outcome, lifeAtCall |-> lifeAtCall, created |-> created]

(***************************************************************************)
(* loadModel up to `await loadSherpaONNX()`. `loaded` is this.modelLoaded  *)
(* as loadModel reads it.                                                  *)
(***************************************************************************)
loadModelCall(via, loaded) ==
  IF loaded
  THEN /\ loadResult' = LoadOutcome(via, "ok", lifecycle, FALSE)
       /\ UNCHANGED <<sherpaOnnx, sherpaFailed, pending, loadCalls>>
  ELSE /\ loadCalls < MaxLoads
       /\ Len(pending) < MaxPending
       /\ \E ret \in Modules \cup {NoModule} :
            /\ loadSherpaONNX(ret)
            /\ pending' = Append(pending,
                  Continuation("load", via, 0, NoClip, <<>>, 0, ret))
       /\ loadCalls' = loadCalls + 1
       /\ UNCHANGED loadResult

initialize(language) ==
  /\ settings' = language
  /\ loadModelCall("initialize", modelLoaded)
  /\ UNCHANGED <<modelLoaded, microphoneTranscriber, recognizersMade, streamsMade,
                 engineLog, trCalls, trResult, lifecycle>>

\* Variant: loadModel() without its `already loaded` return.
loadModelAgain ==
  /\ loadModelCall("loadModel", FALSE)
  /\ UNCHANGED <<settings, modelLoaded, microphoneTranscriber, recognizersMade,
                 streamsMade, engineLog, trCalls, trResult, lifecycle>>

loadModel ==
  /\ loadModelCall("loadModel", modelLoaded)
  /\ UNCHANGED <<settings, modelLoaded, microphoneTranscriber, recognizersMade,
                 streamsMade, engineLog, trCalls, trResult, lifecycle>>

getAvailableLanguages == {"en", "es"}

\* Variant: setLanguage() stores the language before it checks it.
setLanguageStoresFirst(language) ==
  /\ IF language \notin getAvailableLanguages
     THEN /\ loadResult' = LoadOutcome("setLanguage", "UNSUPPORTED_LANGUAGE", lifecycle,
                                       FALSE)
          /\ settings' = IF settings = "null" THEN settings ELSE language
          /\ UNCHANGED <<modelLoaded, sherpaOnnx, sherpaFailed, pending, loadCalls>>
     ELSE IF settings = "null"
     THEN /\ loadResult' = LoadOutcome("setLanguage", "ok", lifecycle, FALSE)
          /\ UNCHANGED <<settings, modelLoaded, sherpaOnnx, sherpaFailed, pending,
                         loadCalls>>
     ELSE /\ settings' = language
          /\ IF modelLoaded /\ language # "en"
             THEN /\ modelLoaded' = FALSE
                  /\ loadModelCall("setLanguage", FALSE)
             ELSE /\ loadResult' = LoadOutcome("setLanguage", "ok", lifecycle, FALSE)
                  /\ UNCHANGED <<modelLoaded, sherpaOnnx, sherpaFailed, pending,
                                 loadCalls>>
  /\ lifecycle' = IF lifecycle = "ready" /\ ~modelLoaded' THEN "reloading" ELSE lifecycle
  /\ UNCHANGED <<microphoneTranscriber, recognizersMade, streamsMade, engineLog,
                 trCalls, trResult>>

setLanguage(language) ==
  /\ IF language \notin getAvailableLanguages
     THEN /\ loadResult' = LoadOutcome("setLanguage", "UNSUPPORTED_LANGUAGE", lifecycle,
                                       FALSE)
          /\ UNCHANGED <<settings, modelLoaded, sherpaOnnx, sherpaFailed, pending,
                         loadCalls>>
     ELSE IF settings = "null"
     THEN /\ loadResult' = LoadOutcome("setLanguage", "ok", lifecycle, FALSE)
          /\ UNCHANGED <<settings, modelLoaded, sherpaOnnx, sherpaFailed, pending,
                         loadCalls>>
     ELSE /\ settings' = language
          /\ IF modelLoaded /\ language # "en"
             THEN /\ modelLoaded' = FALSE
                  /\ loadModelCall("setLanguage", FALSE)
             ELSE /\ loadResult' = LoadOutcome("setLanguage", "ok", lifecycle, FALSE)
                  /\ UNCHANGED <<modelLoaded, sherpaOnnx, sherpaFailed, pending,
                                 loadCalls>>
  /\ lifecycle' = IF lifecycle = "ready" /\ ~modelLoaded' THEN "reloading" ELSE lifecycle
  /\ UNCHANGED <<microphoneTranscriber, recognizersMade, streamsMade, engineLog,
                 trCalls, trResult>>

LogEntry(fn, tid, rec, stream, ok) ==
  [fn |-> fn, tid |-> tid, rec |-> rec, stream |-> stream, ok |-> ok]

(***************************************************************************)
(* loadModel after the await: build the recognizer.                        *)
(***************************************************************************)
loadModelResume ==
  /\ pending # <<>>
  /\ Head(pending).kind = "load"
  /\ pending' = Tail(pending)
  /\ LET c == Head(pending)
         fails(created) ==
           /\ loadResult' = LoadOutcome(c.via, "MODEL_LOAD_FAILED", c.lifeAtCall, created)
           /\ UNCHANGED <<modelLoaded, recognizersMade, lifecycle>>
     IN IF ~c.sherpa.present \/ "createOfflineRecognizer" \notin c.sherpa.api
        THEN fails(FALSE) /\ UNCHANGED <<microphoneTranscriber, engineLog>>
        ELSE \E outcome \in {"handle", "null", "throws"} :
               LET h == IF outcome = "handle" THEN recognizersMade + 1 ELSE 0
               IN /\ engineLog' = Append(engineLog,
                        LogEntry("createOfflineRecognizer", 0, h, 0,
                                 outcome # "throws"))
                  /\ IF outcome = "handle"
                     THEN /\ microphoneTranscriber' = h
                          /\ recognizersMade' = h
                          /\ modelLoaded' = TRUE
                          /\ lifecycle' = "ready"
                          /\ loadResult' = LoadOutcome(c.via, "ok", c.lifeAtCall, TRUE)
                     ELSE IF outcome = "null"
                     THEN fails(TRUE) /\ microphoneTranscriber' = 0
                     ELSE fails(TRUE) /\ UNCHANGED microphoneTranscriber
  /\ UNCHANGED <<sherpaOnnx, sherpaFailed, settings, streamsMade, trCalls, loadCalls,
                 trResult>>

transcriberDispose ==
  /\ microphoneTranscriber' = 0
  /\ modelLoaded' = FALSE
  /\ settings' = "null"
  /\ lifecycle' = "disposed"
  /\ UNCHANGED <<sherpaOnnx, sherpaFailed, pending, recognizersMade, streamsMade,
                 engineLog, trCalls, loadCalls, trResult, loadResult>>

\* The object given to acceptWaveformOffline.
Waveform(sampleRate, samples) == [given |-> TRUE, sampleRate |-> sampleRate,
                                  samples |-> samples]

NoWaveform == [given |-> FALSE, sampleRate |-> 0, samples |-> <<>>]

\* What a transcribe() call came to: the error code or the TranscriptionResult, with
\* the clip, the waveform handed to the engine and the history kept with the call c.
TrOutcome(c, outcome, text, confidence, segConfidence, language, fed) ==
  [tid |-> c.tid, outcome |-> outcome, text |-> text, confidence |-> confidence,
   segConfidence |-> segConfidence, language |-> language, audioData |-> c.audioData,
   fed |-> fed, lifeAtCall |-> c.lifeAtCall, overlap |-> c.overlap]

\* Variant: transcribe() without its two guards.
NeverRejects == FALSE

\* The two guards that open transcribe(); both throw MODEL_NOT_FOUND.
transcribeRejects == ~modelLoaded \/ microphoneTranscriber = 0

\* Variant: transcribe() hands every clip on at the rate it came with.
NeverResamples(audioData) == FALSE

\* transcribe() resamples every clip that is not at 16 kHz.
NeedsResampling(audioData) == audioData.sampleRate # RequiredRate

\* Variant: the engine is told the rate the clip came with.
ClipRate(audioData, resample) == audioData.sampleRate

\* `finalSampleRate`: the clip's rate, replaced by 16000 when the clip is resampled.
FinalSampleRate(audioData, resample) ==
  IF resample THEN RequiredRate ELSE audioData.sampleRate

(***************************************************************************)
(* transcribe up to `await loadSherpaONNX()`: the guards, the conversion   *)
(* to float samples and the resampling to 16 kHz.                          *)
(***************************************************************************)
transcribeCall(audioData) ==
  /\ trCalls < MaxTranscribes
  /\ trCalls' = trCalls + 1
  /\ IF transcribeRejects
     THEN /\ trResult' = TrOutcome(Continuation("transcribe", "transcribe",
                                                trCalls + 1, audioData, <<>>, 0,
                                                NoModule),
                                   "MODEL_NOT_FOUND", <<>>, 0, 0, "", NoWaveform)
          /\ UNCHANGED <<sherpaOnnx, sherpaFailed, pending>>
     ELSE LET converted == convertAudioBufferToFloat32Array(audioData.buffer)
              resample == NeedsResampling(audioData)
              audioSamples == IF resample
                              THEN resampleAudio(converted, audioData.sampleRate,
                                                 RequiredRate)
                              ELSE converted
              finalSampleRate == FinalSampleRate(audioData, resample)
          IN /\ Len(pending) < MaxPending
             /\ \E ret \in Modules \cup {NoModule} :
                  /\ loadSherpaONNX(ret)
                  /\ pending' = Append(pending,
                        Continuation("transcribe", "transcribe", trCalls + 1,
                                     audioData, audioSamples, finalSampleRate, ret))
             /\ UNCHANGED trResult
  /\ UNCHANGED <<settings, modelLoaded, microphoneTranscriber, recognizersMade,
                 streamsMade, engineLog, loadCalls, loadResult, lifecycle>>

\* The four protocol steps in the order transcribe() takes them.
ProtocolOrder == <<"createOfflineStream", "acceptWaveformOffline",
                   "decodeOfflineStream", "getOfflineStreamResultAsJson">>

\* Step k returned normally: the module has the entry point and the engine did not throw.
StepOk(sherpa, o, k) == ProtocolOrder[k] \in sherpa.api /\ o[k] = "ok"

\* Variant: the catch blocks of the steps swallow the error and go on.
StepAlwaysReached(sherpa, o, k) == TRUE

\* Step k is reached: each earlier step's catch block rethrows, ending transcribe().
StepReached(sherpa, o, k) == \A j \in 1..(k - 1) : StepOk(sherpa, o, j)

StepInvoked(sherpa, o, k) == StepReached(sherpa, o, k) /\ ProtocolOrder[k] \in sherpa.api

\* Variant: the later steps are given the first stream ever created.
FirstStream(created) == 1

\* The stream the later steps are given: the local `stream` created in step 1.
StreamUsed(created) == created

\* Variant: the first engine call of a turn lands before the last call already made.
Interleaved(log, calls) ==
  IF log = <<>> \/ calls = <<>> THEN log \o calls
  ELSE SubSeq(log, 1, Len(log) - 1) \o <<Head(calls), log[Len(log)]>> \o Tail(calls)

\* The engine calls of one turn follow, in order, every call made in earlier turns:
\* there is no await between step 1 and step 4.
Recorded(log, calls) == log \o calls

\* What the four engine calls of one transcription do: all return, or the first
\* that throws (the calls after it are never made).
EngineRuns == {[k \in 1..4 |-> IF k = f THEN "throws" ELSE "ok"] : f \in 0..4}

\* What the catch block of step 4 leaves in `result`.
EmptyResult == Obj(<<Str("text", <<>>)>>)

(***************************************************************************)
(* transcribe after the await: the four engine calls, text extraction and  *)
(* the result, all in one turn. `o` is what each engine call does, `json`  *)
(* what the engine returns as the result.                                  *)
(***************************************************************************)
transcribeResume ==
  /\ pending # <<>>
  /\ Head(pending).kind = "transcribe"
  /\ pending' = Tail(pending)
  /\ LET c == Head(pending)
         failed(fed) == TrOutcome(c, "TRANSCRIPTION_FAILED", <<>>, 0, 0, "", fed)
     IN IF ~c.sherpa.present
        THEN trResult' = failed(NoWaveform) /\ UNCHANGED <<streamsMade, engineLog>>
        ELSE \E o \in EngineRuns, json \in EngineJsons :
               LET recognizer == microphoneTranscriber
                   created == IF StepOk(c.sherpa, o, 1) THEN streamsMade + 1 ELSE 0
                   stream == StreamUsed(created)
                   arg == [k \in 1..4 |->
                             IF ProtocolOrder[k] = "createOfflineStream"
                             THEN LogEntry(ProtocolOrder[k], c.tid, recognizer, created,
                                           StepOk(c.sherpa, o, k))
                             ELSE IF ProtocolOrder[k] = "decodeOfflineStream"
                             THEN LogEntry(ProtocolOrder[k], c.tid, recognizer, stream,
                                           StepOk(c.sherpa, o, k))
                             ELSE LogEntry(ProtocolOrder[k], c.tid, 0, stream,
                                           StepOk(c.sherpa, o, k))]
                   fed == IF StepInvoked(c.sherpa, o, 2)
                          THEN Waveform(c.finalSampleRate, c.audioSamples)
                          ELSE NoWaveform
                   calls == Concat([k \in 1..4 |->
                                      IF StepInvoked(c.sherpa, o, k) THEN <<arg[k]>>
                                      ELSE <<>>])
                   result == IF StepOk(c.sherpa, o, 4) /\ json.kind # "unparsable"
                             THEN json ELSE EmptyResult
                   extracted == ExtractText(result)
                   confidence == calculateConfidence(c.audioData.duration,
                                                     c.audioData.sampleRate,
                                                     Len(c.audioData.buffer))
                   tr == TranscriptionResult(extracted.text, confidence,
                            IF settings = "null" THEN "en" ELSE settings)
               IN /\ engineLog' = Recorded(engineLog, calls)
                  /\ streamsMade' = IF created # 0 THEN created ELSE streamsMade
                  /\ trResult' =
                       IF ~StepReached(c.sherpa, o, 4) \/ extracted.throws
                       THEN failed(fed)
                       ELSE TrOutcome(c, "ok", tr.text, tr.confidence,
                                      tr.segConfidence, tr.language, fed)
  /\ UNCHANGED <<sherpaOnnx, sherpaFailed, settings, modelLoaded, microphoneTranscriber,
                 recognizersMade, trCalls, loadCalls, loadResult, lifecycle>>

TrInit ==
  /\ sherpaOnnx = NoModule
  /\ sherpaFailed = FALSE
  /\ settings = "null"
  /\ modelLoaded = FALSE
  /\ microphoneTranscriber = 0
  /\ pending = <<>>
  /\ recognizersMade = 0
  /\ streamsMade = 0
  /\ engineLog = <<>>
  /\ trCalls = 0
  /\ loadCalls = 0
  /\ trResult = [tid |-> 0, outcome |-> "none", text |-> <<>>, confidence |-> 0,
                  segConfidence |-> 0, language |-> "", audioData |-> NoClip,
                  fed |-> NoWaveform, lifeAtCall |-> "new", overlap |-> FALSE]
  /\ loadResult = LoadOutcome("none", "none", "new", FALSE)
  /\ lifecycle = "new"

(***************************************************************************)
(* AudioRecorder.                                                          *)
(***************************************************************************)
\* Input samples of an onaudioprocess event, in units of 1/65536 (so that
\* sample * 32768 may have a fractional part): 1.5/32768 and a value below -1.0.
InputFloats == {3, -70000}

ContextRates == {44100, 48000}

\* Truncation toward zero, as storing a number into an Int16Array does.
TruncHalf(h) == IF h >= 0 THEN h \div 2 ELSE -((-h) \div 2)

\* Math.max(-32768, Math.min(32767, inputData[i] * 32768)), then the Int16Array store.
FloatToInt16(h) ==
  IF h <= -2 * Int16Scale THEN -Int16Scale
  ELSE IF h >= 2 * (Int16Scale - 1) THEN Int16Scale - 1
  ELSE TruncHalf(h)

\* The two bytes of an int16 in the buffer (little-endian).
Int16Bytes(v) ==
  LET u == IF v < 0 THEN v + 2 * Int16Scale ELSE v
  IN <<u % 256, u \div 256>>

\* The Blob built from one event's input buffer.
ChunkOf(inputData) == Concat([i \in 1..Len(inputData) |-> Int16Bytes(FloatToInt16(inputData[i]))])

InputBuffers == [1..BufferSize -> InputFloats]

\* combinedView.set(view, offset)
SetAt(combined, view, offset) ==
  [i \in 1..Len(combined) |->
     IF i > offset /\ i <= offset + Len(view) THEN view[i - offset] ELSE combined[i]]

\* Variant: every buffer is copied to the start of the combined buffer.
SameOffset(offset, buffer) == offset

\* The offset after a buffer has been copied.
NextOffset(offset, buffer) == offset + Len(buffer)

RECURSIVE CopyAll(_, _, _)
CopyAll(combined, buffers, offset) ==
  IF buffers = <<>> THEN combined
  ELSE CopyAll(SetAt(combined, Head(buffers), offset), Tail(buffers),
               NextOffset(offset, Head(buffers)))

\* The combined ArrayBuffer: totalSize zero bytes, each buffer copied at its offset.
CombineBuffers(arrayBuffers, totalSize) ==
  CopyAll([i \in 1..totalSize |-> 0], arrayBuffers, 0)

IdleStart == [pc |-> "idle", caller |-> "", preFlag |-> FALSE]

IdleStop == [pc |-> "idle", caller |-> "", preFlag |-> FALSE, ctx |-> 0,
             arrayBuffers |-> <<>>, totalSize |-> 0, read |-> 0, snapshot |-> <<>>,
             late |-> 0]

\* The client awaits each recorder call before it issues the next.
NoCallInFlight == startCall.pc = "idle" /\ stopCall.pc = "idle"

\* The fields of the recorder a caller can tell apart.
RecorderState(flag, chunks, stream, live) ==
  [flag |-> flag, chunks |-> chunks, stream |-> stream, live |-> live]

RecOutcome(op, caller, outcome, cause, clip, preFlag, snapshot, late, kept) ==
  [op |-> op, caller |-> caller, outcome |-> outcome, cause |-> cause, clip |-> clip,
   preFlag |-> preFlag, snapshot |-> snapshot, late |-> late, kept |-> kept,
   prevOp |-> recResult.op, handedBefore |-> Len(handedOver)]

\* Variant: cleanup() keeps the chunks of the last recording.
cleanupKeepsChunks(stream) ==
  /\ liveTracks' = IF stream # 0 THEN liveTracks \ {stream} ELSE liveTracks
  /\ audioStream' = 0
  /\ UNCHANGED <<recordedChunks, origin>>
  /\ isCurrentlyRecording' = FALSE

\* cleanup(): stop the stream's tracks, drop the chunks, clear the flag.
cleanup(stream) ==
  /\ liveTracks' = IF stream # 0 THEN liveTracks \ {stream} ELSE liveTracks
  /\ audioStream' = 0
  /\ recordedChunks' = <<>>
  /\ origin' = <<>>
  /\ isCurrentlyRecording' = FALSE

\* Whether the recorder fields a caller can observe are the same after the step.
Kept ==
  RecorderState(isCurrentlyRecording', recordedChunks', audioStream', liveTracks')
    = RecorderState(isCurrentlyRecording, recordedChunks, audioStream, liveTracks)

\* Variant: startRecording() without its guard.
NeverRejectsStart == FALSE

\* The guard that opens startRecording().
startRejects == isCurrentlyRecording

\* What a startRecording() call leaves suspended: nothing when it throws before
\* `await getUserMedia(...)`, otherwise its continuation.
StartSuspended(caller, mediaDevices) ==
  IF startRejects \/ ~mediaDevices THEN IdleStart
  ELSE [pc |-> "getUserMedia", caller |-> caller, preFlag |-> isCurrentlyRecording]

\* startRecording up to `await getUserMedia(...)`: the guard, then the check for the
\* MediaDevices API inside the try block, whose catch block runs cleanup().
StartUpToAwait(caller, mediaDevices) ==
  /\ IF startRejects
     THEN /\ UNCHANGED <<isCurrentlyRecording, recordedChunks, audioStream, liveTracks,
                         origin>>
          /\ recResult' = RecOutcome("start", caller, "Recording is already in progress",
                                     "", NoClip, isCurrentlyRecording, <<>>, 0, Kept)
     ELSE IF ~mediaDevices
     THEN /\ cleanup(audioStream)
          /\ recResult' = RecOutcome("start", caller, "Failed to start recording",
                                     "MediaDevices API not supported", NoClip,
                                     isCurrentlyRecording, <<>>, 0, Kept)
     ELSE /\ UNCHANGED <<isCurrentlyRecording, recordedChunks, audioStream, liveTracks,
                         origin, recResult>>
  /\ UNCHANGED <<audioContext, ctxState, ctxRate, firing, sessionsMade,
                 stopCall, delivered, handedOver>>

(***************************************************************************)
(* startRecording up to `await getUserMedia(...)`.                         *)
(***************************************************************************)
startRecordingCall(caller, mediaDevices) ==
  /\ NoCallInFlight
  /\ recCalls < MaxRecCalls
  /\ recCalls' = recCalls + 1
  /\ startCall' = StartSuspended(caller, mediaDevices)
  /\ StartUpToAwait(caller, mediaDevices)

\* startRecording after getUserMedia settles: rejected, or resolved with a new
\* stream; then the audio graph is built, which may throw.
StartSettles(call) ==
  \E settled \in {"rejected", "resolved", "graphThrows"} :
    LET s == sessionsMade + 1
        failMsg == "Failed to start recording"
    IN IF settled = "rejected"
       THEN /\ cleanup(audioStream)
            /\ UNCHANGED <<audioContext, ctxState, ctxRate, firing, sessionsMade,
                           delivered>>
            /\ recResult' = RecOutcome("start", call.caller, failMsg,
                                       "getUserMedia rejected", NoClip,
                                       call.preFlag, <<>>, 0, Kept)
       ELSE /\ sessionsMade < MaxSessions
            /\ sessionsMade' = s
            /\ IF settled = "graphThrows"
               THEN /\ liveTracks' = (liveTracks \cup {s}) \ {s}
                    /\ audioStream' = 0
                    /\ recordedChunks' = <<>>
                    /\ origin' = <<>>
                    /\ isCurrentlyRecording' = FALSE
                    /\ UNCHANGED <<audioContext, ctxState, ctxRate, firing, delivered>>
                    /\ recResult' = RecOutcome("start", call.caller, failMsg,
                                               "audio graph", NoClip,
                                               call.preFlag, <<>>, 0, Kept)
               ELSE /\ \E rate \in ContextRates :
                         ctxRate' = [ctxRate EXCEPT ![s] = rate]
                    /\ audioStream' = s
                    /\ liveTracks' = liveTracks \cup {s}
                    /\ recordedChunks' = <<>>
                    /\ origin' = <<>>
                    /\ ctxState' = [ctxState EXCEPT ![s] = "running"]
                    /\ firing' = firing \cup {s}
                    /\ audioContext' = s
                    /\ isCurrentlyRecording' = TRUE
                    /\ delivered' = <<>>
                    /\ recResult' = RecOutcome("start", call.caller, "ok", "",
                                               NoClip, call.preFlag, <<>>, 0,
                                               FALSE)

(***************************************************************************)
(* startRecording when getUserMedia settles.                               *)
(***************************************************************************)
startRecordingResume ==
  /\ startCall.pc = "getUserMedia"
  /\ startCall' = IdleStart
  /\ StartSettles(startCall)
  /\ recCalls' = recCalls
  /\ UNCHANGED <<stopCall, handedOver>>

\* Variant: the callback appends whether or not the flag is set.
AppendRegardless(chunks, chunk) == Append(chunks, chunk)

\* What the callback does with an event: append the chunk while the flag is set.
AfterAudioProcess(chunks, chunk) ==
  IF isCurrentlyRecording THEN Append(chunks, chunk) ELSE chunks

(***************************************************************************)
(* processor.onaudioprocess, for an event of a processor still delivering. *)
(***************************************************************************)
onaudioprocess(p, inputData) ==
  /\ p \in firing
  /\ isCurrentlyRecording => Len(recordedChunks) < MaxChunks
  /\ recordedChunks' = AfterAudioProcess(recordedChunks, ChunkOf(inputData))
  /\ delivered' = IF isCurrentlyRecording THEN Append(delivered, ChunkOf(inputData))
                  ELSE delivered
  /\ origin' = IF recordedChunks' # recordedChunks THEN Append(origin, p) ELSE origin
  /\ stopCall' = IF stopCall.pc = "idle" THEN stopCall
                 ELSE [stopCall EXCEPT !.late = Min(1, @ + 1)]
  /\ UNCHANGED <<isCurrentlyRecording, audioStream, audioContext, ctxState, ctxRate,
                 liveTracks, firing, sessionsMade, startCall, recCalls,
                 recResult, handedOver>>

\* Variant: stopRecording() without its guard.
NeverRejectsStop == FALSE

\* Variant: stopRecording() with its guard inverted.
RejectsWhileRecording == isCurrentlyRecording

\* Variant: stopRecording() leaves the flag set.
StaysArmed == TRUE

\* Variant: stopRecording() without its check for an empty recording.
NeverEmpty == FALSE

\* The guard that opens stopRecording().
stopRejects == ~isCurrentlyRecording

\* The value stopRecording() stores in the flag before it releases anything.
flagAfterStopRequest == FALSE

\* `if (this.recordedChunks.length === 0) throw new Error('No audio data recorded')`
noAudioData == recordedChunks = <<>>

\* stopRecording failed: the catch block has run cleanup(); the plugin's own catch
\* block reports the error and hands nothing to the transcriber.
StopFails(call, cause) ==
  /\ stopCall' = IdleStop
  /\ recResult' = RecOutcome("stop", call.caller, "Failed to stop recording", cause,
                             NoClip, call.preFlag, call.snapshot, call.late, FALSE)
  /\ UNCHANGED handedOver

\* stopRecording returns the clip; SpeechToTextPlugin.stopRecording passes a clip
\* with byteLength > 0 on to transcriber.transcribe().
StopFinishes(call, arrayBuffers, totalSize) ==
  LET sampleRate == IF call.ctx # 0 THEN ctxRate[call.ctx] ELSE DefaultRate
      audioData == [buffer |-> CombineBuffers(arrayBuffers, totalSize),
                    sampleRate |-> sampleRate,
                    duration |-> Rat(totalSize, 2 * sampleRate)]
  IN /\ stopCall' = IdleStop
     /\ recResult' = RecOutcome("stop", call.caller, "clip", "", audioData,
                                call.preFlag, call.snapshot, call.late, FALSE)
     /\ handedOver' = IF call.caller = "plugin" /\ Len(audioData.buffer) > 0
                      THEN Append(handedOver, audioData)
                      ELSE handedOver

\* stopRecording from the end of `await audioContext.close()` to its next await:
\* stop the tracks, reject an empty recording, start reading the chunks.
StopAfterClose(call, flagNow) ==
  /\ liveTracks' = IF audioStream # 0 THEN liveTracks \ {audioStream} ELSE liveTracks
  /\ audioStream' = 0
  /\ IF noAudioData
     THEN /\ recordedChunks' = <<>>
          /\ origin' = <<>>
          /\ isCurrentlyRecording' = FALSE
          /\ StopFails(call, "No audio data recorded")
     ELSE /\ UNCHANGED <<recordedChunks, origin>>
          /\ isCurrentlyRecording' = flagNow
          /\ IF Len(recordedChunks) > 0
             THEN /\ stopCall' = [call EXCEPT !.pc = "read"]
                  /\ UNCHANGED <<recResult, handedOver>>
             ELSE StopFinishes(call, <<>>, 0)

\* stopRecording up to `await audioContext.close()`, or to its next await when there
\* is no context to close.
StopUpToAwait(caller) ==
  /\ IF stopRejects
     THEN /\ UNCHANGED <<isCurrentlyRecording, recordedChunks, audioStream, liveTracks,
                         stopCall, handedOver, origin>>
          /\ recResult' = RecOutcome("stop", caller, "No recording in progress", "",
                                     NoClip, isCurrentlyRecording, <<>>, 0, Kept)
     ELSE LET call == [IdleStop EXCEPT !.caller = caller,
                                       !.preFlag = isCurrentlyRecording,
                                       !.ctx = audioContext,
                                       !.snapshot = recordedChunks]
          IN IF audioContext # 0 /\ ctxState[audioContext] # "closed"
             THEN /\ isCurrentlyRecording' = flagAfterStopRequest
                  /\ stopCall' = [call EXCEPT !.pc = "close"]
                  /\ UNCHANGED <<recordedChunks, audioStream, liveTracks, recResult,
                                 handedOver, origin>>
             ELSE StopAfterClose(call, flagAfterStopRequest)
  /\ UNCHANGED <<audioContext, ctxState, ctxRate, firing, sessionsMade, delivered>>

(***************************************************************************)
(* stopRecording up to `await audioContext.close()`.                       *)
(***************************************************************************)
stopRecordingCall(caller) ==
  /\ NoCallInFlight
  /\ recCalls < MaxRecCalls
  /\ recCalls' = recCalls + 1
  /\ StopUpToAwait(caller)
  /\ UNCHANGED startCall

(***************************************************************************)
(* stopRecording when audioContext.close() settles.                        *)
(***************************************************************************)
stopRecordingClosed ==
  /\ stopCall.pc = "close"
  /\ \E settled \in {"resolved", "rejected"} :
       IF settled = "resolved"
       THEN /\ ctxState' = [ctxState EXCEPT ![stopCall.ctx] = "closed"]
            /\ firing' = firing \ {stopCall.ctx}
            /\ StopAfterClose(stopCall, isCurrentlyRecording)
       ELSE /\ cleanup(audioStream)
            /\ StopFails(stopCall, "close rejected")
            /\ UNCHANGED <<ctxState, firing>>
  /\ UNCHANGED <<audioContext, ctxRate, sessionsMade, startCall, recCalls,
                 delivered>>

(***************************************************************************)
(* stopRecording when `await chunk.arrayBuffer()` resolves: keep the       *)
(* buffer, then either await the next chunk or combine and return.         *)
(***************************************************************************)
stopRecordingRead ==
  /\ stopCall.pc = "read"
  /\ stopCall.read < Len(recordedChunks)
  /\ LET arrayBuffer == recordedChunks[stopCall.read + 1]
         arrayBuffers == Append(stopCall.arrayBuffers, arrayBuffer)
         totalSize == stopCall.totalSize + Len(arrayBuffer)
     IN IF stopCall.read + 1 < Len(recordedChunks)
        THEN /\ stopCall' = [stopCall EXCEPT !.arrayBuffers = arrayBuffers,
                                             !.totalSize = totalSize,
                                             !.read = @ + 1]
             /\ UNCHANGED <<recResult, handedOver>>
        ELSE StopFinishes(stopCall, arrayBuffers, totalSize)
  /\ UNCHANGED <<isCurrentlyRecording, recordedChunks, audioStream, audioContext,
                 ctxState, ctxRate, liveTracks, firing, sessionsMade,
                 startCall, recCalls, delivered, origin>>

(***************************************************************************)
(* AudioRecorder.dispose()                                                 *)
(***************************************************************************)
recorderDispose ==
  /\ NoCallInFlight
  /\ recCalls < MaxRecCalls
  /\ recCalls' = recCalls + 1
  /\ cleanup(audioStream)
  /\ recResult' = RecOutcome("dispose", "direct", "ok", "", NoClip,
                             isCurrentlyRecording, <<>>, 0, FALSE)
  /\ UNCHANGED <<audioContext, ctxState, ctxRate, firing, sessionsMade,
                 startCall, stopCall, delivered, handedOver>>

\* UIController.startRecording: `this.isRecording = true`, before the plugin's
\* startRecording() asks the recorder.
flagAfterStartClick == TRUE

(***************************************************************************)
(* A click on the ribbon button: UIController.handleRecordingButtonClick   *)
(* through the handlers setupEventHandlers() installed, up to the first    *)
(* await of the recorder call it makes. The plugin's startRecording() and  *)
(* stopRecording() catch what the recorder throws and show a notice. A     *)
(* start finds the first free continuation; one stop is in flight at most. *)
(***************************************************************************)
handleRecordingButtonClick(mediaDevices) ==
  /\ recCalls < MaxRecCalls
  /\ recCalls' = recCalls + 1
  /\ IF isRecording
     THEN /\ stopCall.pc = "idle"
          /\ isRecording' = FALSE
          /\ StopUpToAwait("plugin")
          /\ UNCHANGED <<startCall, overlapCall>>
     ELSE /\ isRecording' = flagAfterStartClick
          /\ IF startCall.pc = "idle"
             THEN /\ startCall' = StartSuspended("plugin", mediaDevices)
                  /\ UNCHANGED overlapCall
             ELSE /\ overlapCall.pc = "idle"
                  /\ overlapCall' = StartSuspended("plugin", mediaDevices)
                  /\ UNCHANGED startCall
          /\ StartUpToAwait("plugin", mediaDevices)

(***************************************************************************)
(* startRecording when getUserMedia settles, for a call issued while an    *)
(* earlier startRecording() was still suspended.                           *)
(***************************************************************************)
startRecordingOverlapResume ==
  /\ overlapCall.pc = "getUserMedia"
  /\ overlapCall' = IdleStart
  /\ StartSettles(overlapCall)
  /\ UNCHANGED <<startCall, stopCall, recCalls, handedOver, isRecording>>

\* Scheduling bound: while stopRecording() reads its chunks, no click is handled and
\* no device open settles.
ReadUndisturbed == stopCall.pc # "read"

RecInit ==
  /\ isCurrentlyRecording = FALSE
  /\ recordedChunks = <<>>
  /\ audioStream = 0
  /\ audioContext = 0
  /\ ctxState = [s \in 1..MaxSessions |-> "none"]
  /\ ctxRate = [s \in 1..MaxSessions |-> 0]
  /\ liveTracks = {}
  /\ firing = {}
  /\ sessionsMade = 0
  /\ startCall = IdleStart
  /\ stopCall = IdleStop
  /\ recCalls = 0
  /\ recResult = [op |-> "none", caller |-> "", outcome |-> "none", cause |-> "",
                  clip |-> NoClip, preFlag |-> FALSE, snapshot |-> <<>>, late |-> 0,
                  kept |-> FALSE, prevOp |-> "none", handedBefore |-> 0]
  /\ delivered = <<>>
  /\ handedOver = <<>>
  /\ origin = <<>>
  /\ isRecording = FALSE
  /\ overlapCall = IdleStart

(***************************************************************************)
(* The helpers of MoonshineTranscriber applied on their own: the text      *)
(* extraction of transcribe(), calculateConfidence and resampleAudio.      *)
(***************************************************************************)
\* Durations in seconds: Rat(0, 0) is NaN, Rat(1, 0) is Infinity.
Durations == {Rat(-1, 1), Rat(0, 1), Rat(1, 2), Rat(1, 1), Rat(3, 1), Rat(5, 1),
              Rat(11, 2), Rat(86400, 1), Rat(1, 0), Rat(0, 0)}

SampleRates == {0, 8000, 15999, 16000, 44099, 44100, 192000}

ByteLengths == {0, 9999, 10000, 100000, 100001, 2147483647}

SampleValues == {Rat(0, Int16Scale), Rat(Int16Scale \div 2, Int16Scale),
                 Rat(-Int16Scale, Int16Scale), Rat(Int16Scale - 1, Int16Scale)}

SampleSeqs == UNION {[1..n -> SampleValues] : n \in 0..MaxSamples}

\* <<inputSampleRate, outputSampleRate>>
RatePairs == { <<1, 1>>, <<16000, 16000>>, <<48000, 48000>>, <<48000, 16000>>,
               <<44100, 16000>>, <<8000, 16000>>, <<16000, 48000>>, <<3, 59>> }

\* An environment variable: absent, or set to a string. DYLD_LIBRARY_PATH is held as
\* the sequence of directories its string joins with ':'; <<>> is the empty string.
Absent == [set |-> FALSE, value |-> <<>>]

SetTo(value) == [set |-> TRUE, value |-> value]

\* `process.env.DYLD_LIBRARY_PATH || ''`
OrEmpty(env) == IF env.set /\ env.value # <<>> THEN env.value ELSE <<>>

\* `nativeLibDir + (originalPath ? ':' + originalPath : '')`
WithNativeLibDir(originalPath) == <<"nativeLibDir">> \o originalPath

\* `if (originalPath) process.env.DYLD_LIBRARY_PATH = originalPath;
\*  else delete process.env.DYLD_LIBRARY_PATH;`
restoreLibraryPath(originalPath) ==
  IF originalPath # <<>> THEN SetTo(originalPath) ELSE Absent

\* loadSherpaONNX on a process that has no module cached: `during` is
\* DYLD_LIBRARY_PATH while the native module is required, `env` is the variable
\* when the call returns, `module` what it returns. `requires` holds the modules
\* whose require() succeeds.
loadSherpaONNXEnv(env, requires) ==
  LET originalPath == OrEmpty(env)
      during == SetTo(WithNativeLibDir(originalPath))
  IN IF "native" \in requires
     THEN [during |-> during, env |-> restoreLibraryPath(originalPath),
           module |-> "native"]
     ELSE [during |-> during, env |-> restoreLibraryPath(originalPath),
           module |-> IF "sherpa-onnx-node" \in requires THEN "npm" ELSE "null"]

Probe(fn, payload, duration, sampleRate, byteLength, samples, from, to) ==
  [fn |-> fn, payload |-> payload, duration |-> duration, sampleRate |-> sampleRate,
   byteLength |-> byteLength, samples |-> samples, from |-> from, to |-> to,
   buffer |-> <<>>, text |-> <<>>, options |-> {}, env |-> Absent, requires |-> {}]

\* DYLD_LIBRARY_PATH as loadSherpaONNX may find it, and which require() calls succeed.
LibraryPaths == {Absent, SetTo(<<>>), SetTo(<<"/usr/lib">>),
                 SetTo(<<"/usr/lib", "/opt/lib">>)}

LoadProbes ==
  {[Probe("loadSherpaONNX", EmptyResult, Rat(0, 1), 0, 0, <<>>, 0, 0)
      EXCEPT !.env = e, !.requires = r] :
     e \in LibraryPaths, r \in SUBSET {"native", "sherpa-onnx-node"}}

ExtractProbes ==
  {Probe("ExtractText", json, Rat(0, 1), 0, 0, <<>>, 0, 0) :
     json \in {j \in ResultJsons : j.kind # "unparsable"}}

ConfidenceProbes ==
  {Probe("calculateConfidence", EmptyResult, d, r, b, <<>>, 0, 0) :
     d \in Durations, r \in SampleRates, b \in ByteLengths}

\* Short sequences at every rate pair, and 5 ms of silence taken from 12 kHz to
\* 88.2 kHz.
ResampleProbes ==
  {Probe("resampleAudio", EmptyResult, Rat(0, 1), 0, 0, x, rr[1], rr[2]) :
     x \in SampleSeqs, rr \in RatePairs}
  \cup {Probe("resampleAudio", EmptyResult, Rat(0, 1), 0, 0,
               [i \in 1..60 |-> Rat(0, Int16Scale)], 12000, 88200)}

\* Byte buffers of up to MaxBytes bytes, the extreme bytes among them.
ByteValues == {0, 1, 127, 128, 255}

ByteBuffers == UNION {[1..n -> ByteValues] : n \in 0..MaxBytes}

ConvertProbes ==
  {[Probe("convertAudioBufferToFloat32Array", EmptyResult, Rat(0, 1), 0, 0, <<>>, 0, 0)
      EXCEPT !.buffer = b] : b \in ByteBuffers}

\* Samples given to analyzeAudio, in 2048ths: silence, the values on either side
\* of 0.001 and of 0.01, half scale and full scale.
AnalyzedValues ==
  {Rat(k, 2048) : k \in {0, 1, 3, 20, 21, 1024, -1024, 2048, -2048}}

\* Longer buffers, where 10% and 1% of the samples are more than one sample:
\* k half-scale samples among 20, `peaks` samples of 2/128 among 200 of which
\* 21 are 1/128, and a buffer of 200 at half scale with one sample 1/128 above.
Sparse(k) == [i \in 1..20 |-> IF i <= k THEN Rat(1024, 2048) ELSE Rat(0, 2048)]

Quiet(peaks) ==
  [i \in 1..200 |-> IF i <= peaks THEN Rat(IF i % 2 = 0 THEN 2 ELSE -2, 128)
                    ELSE IF i <= 21 THEN Rat(IF i % 2 = 0 THEN 1 ELSE -1, 128)
                    ELSE Rat(0, 128)]

Offset == [i \in 1..200 |-> IF i = 1 THEN Rat(65, 128) ELSE Rat(64, 128)]

AnalyzeProbes ==
  {Probe("analyzeAudio", EmptyResult, Rat(0, 1), 0, 0, x, 0, 0) :
     x \in UNION {[1..n -> AnalyzedValues] : n \in 0..MaxAnalyzed}
            \cup {Sparse(k) : k \in 1..3} \cup {Quiet(k) : k \in 1..3} \cup {Offset}}

\* Clip sizes and context rates for the duration that stopRecording computes: up
\* to MaxClipSamples samples, and the seven chunks of 4096 samples that 0.6 s at
\* 48 kHz come to.
DurationProbes ==
  {Probe("duration", EmptyResult, Rat(0, 1), r, 2 * n, <<>>, 0, 0) :
     n \in (1..MaxClipSamples) \cup {7 * 4096}, r \in ContextRates}

\* What SpeechToTextPlugin.stopRecording works on once the recorder has returned
\* the clip: the clip's byte length, the text of the TranscriptionResult, whether
\* auto-save is enabled, and whether transcribe() or insertText() rejects.
TranscribedTexts ==
  {<<>>, <<" ">>, <<" ", " ">>, <<"a">>, <<"h", "i">>, <<" ", "h", "i", " ">>}

WorkflowOptions == SUBSET {"autoSaveAfterTranscription", "transcribeRejects",
                           "insertTextRejects"}

WorkflowProbes ==
  {[Probe("stopRecording", EmptyResult, Rat(0, 1), 0, b, <<>>, 0, 0)
      EXCEPT !.text = t, !.options = o] :
     b \in {0, 2}, t \in TranscribedTexts, o \in WorkflowOptions}

Answer(fn, throws, text, confidence, segConfidence, samples) ==
  [fn |-> fn, throws |-> throws, text |-> text, confidence |-> confidence,
   segConfidence |-> segConfidence, samples |-> samples, buffer |-> <<>>,
   qualityGood |-> FALSE, duration |-> FloatZero,
   inserted |-> <<>>, saved |-> FALSE, notices |-> <<>>, reads |-> {},
   env |-> Absent, during |-> Absent, module |-> ""]

NoAnswer == Answer("none", FALSE, <<>>, 0, 0, <<>>)

applyExtractText ==
  /\ probe.fn = "ExtractText"
  /\ LET extracted == ExtractText(probe.payload)
     IN answer' = Answer("ExtractText", extracted.throws,
                         IF extracted.throws THEN <<>> ELSE extracted.text, 0, 0, <<>>)
  /\ UNCHANGED probe

applyCalculateConfidence ==
  /\ probe.fn = "calculateConfidence"
  /\ LET tr == TranscriptionResult(<<>>,
                  calculateConfidence(probe.duration, probe.sampleRate,
                                      probe.byteLength), "en")
     IN answer' = Answer("calculateConfidence", FALSE, <<>>, tr.confidence,
                         tr.segConfidence, <<>>)
  /\ UNCHANGED probe

applyResampleAudio ==
  /\ probe.fn = "resampleAudio"
  /\ answer' = [Answer("resampleAudio", FALSE, <<>>, 0, 0,
                       resampleAudio(probe.samples, probe.from, probe.to))
                  EXCEPT !.reads = resampleReads(probe.samples, probe.from, probe.to)]
  /\ UNCHANGED probe

\* Variant: the hasContent test of analyzeAudioQuality, more than 1% of the samples.
hasContent(nonZeroCount, length) == 100 * nonZeroCount > length

\* nonZeroCount > audioSamples.length * 0.1; the double 0.1 lies above 1/10 by
\* less than any difference between a count and a tenth of a length.
hasSignificantAudio(nonZeroCount, length) == 10 * nonZeroCount > length

\* peakCount > audioSamples.length * 0.01
hasSpeechLikePeaks(peakCount, length) == 100 * peakCount > length

\* Variant: the mean of the squares alone, the mean not taken off.
MeanSquare(length, sum, sumSquares) == length * sumSquares

\* (sumSquares / length) - (mean * mean), times length^2, in squares of the
\* samples' unit.
Variance(length, sum, sumSquares) == length * sumSquares - sum * sum

\* What the loop of analyzeAudio has in min, max, sum, sumSquares and the two
\* counts after the samples lo..hi, in units of the samples' denominator; the
\* range is folded by halves, every field being the same in any order.
RECURSIVE Tally(_, _, _)
Tally(audioSamples, lo, hi) ==
  IF lo = hi
    THEN LET sample == audioSamples[lo].num
             unit == audioSamples[lo].den
             abs == IF sample < 0 THEN -sample ELSE sample
         IN [min |-> sample, max |-> sample, sum |-> sample,
             sumSquares |-> sample * sample,
             nonZeroCount |-> IF 1000 * abs > unit THEN 1 ELSE 0,
             peakCount |-> IF 100 * abs > unit THEN 1 ELSE 0]
    ELSE LET mid == (lo + hi) \div 2
             a == Tally(audioSamples, lo, mid)
             b == Tally(audioSamples, mid + 1, hi)
         IN [min |-> Min(a.min, b.min), max |-> Max(a.max, b.max),
             sum |-> a.sum + b.sum,
             sumSquares |-> a.sumSquares + b.sumSquares,
             nonZeroCount |-> a.nonZeroCount + b.nonZeroCount,
             peakCount |-> a.peakCount + b.peakCount]

\* The verdict of analyzeAudio on samples that share one denominator `unit`.  An
\* empty buffer leaves min and max infinite and makes mean and rms NaN, so every
\* comparison is false.  The sums are exact: on the buffers analysed here the
\* doubles differ from them by less than 1e-15, and no variance is that near
\* 1e-6 or 1.
analyzeAudio(audioSamples) ==
  LET length == Len(audioSamples)
      unit == IF length = 0 THEN 1 ELSE audioSamples[1].den
      end == IF length = 0
               THEN [min |-> 0, max |-> 0, sum |-> 0, sumSquares |-> 0,
                     nonZeroCount |-> 0, peakCount |-> 0]
               ELSE Tally(audioSamples, 1, length)
      variance == Variance(length, end.sum, end.sumSquares)
      one == length * length * unit * unit
      hasGoodDynamicRange == length > 0 /\ 200 * (end.max - end.min) > unit
      hasReasonableRMS ==
        length > 0 /\ variance > one \div 1000000 /\ variance < one
  IN [qualityGood |-> /\ hasSignificantAudio(end.nonZeroCount, length)
                      /\ hasGoodDynamicRange
                      /\ hasReasonableRMS
                      /\ hasSpeechLikePeaks(end.peakCount, length),
      nonZeroCount |-> end.nonZeroCount,
      peakCount |-> end.peakCount]

applyAnalyzeAudio ==
  /\ probe.fn = "analyzeAudio"
  /\ answer' = [Answer("analyzeAudio", FALSE, <<>>, 0, 0, <<>>)
                   EXCEPT !.qualityGood = analyzeAudio(probe.samples).qualityGood]
  /\ UNCHANGED probe

\* Variant: the byte count is taken for the sample count.
BytesAsSamples(totalSize) == totalSize

\* const totalSamples = totalSize / bytesPerSample, two bytes to a sample.
totalSamples(totalSize) == totalSize \div 2

\* const duration = totalSamples / sampleRate, the binary64 quotient.  (The
\* recorder's clip carries the exact quotient Rat(totalSize, 2 * sampleRate).)
clipDuration(totalSize, sampleRate) ==
  FloatDiv(FromInt(totalSamples(totalSize)), FromInt(sampleRate))

applyClipDuration ==
  /\ probe.fn = "duration"
  /\ answer' = [Answer("duration", FALSE, <<>>, 0, 0, <<>>)
                   EXCEPT !.duration = clipDuration(probe.byteLength, probe.sampleRate)]
  /\ UNCHANGED probe

\* Variant: any text that is not the empty string is inserted.
NotEmpty(text) == text # <<>>

\* `transcriptionResult.text && transcriptionResult.text.trim()`
HasText(text) == text # <<>> /\ Trim(text) # <<>>

Notice(kind, message) == [kind |-> kind, message |-> message]

\* SpeechToTextPlugin.stopRecording from the return of audioRecorder.stopRecording
\* on: what was given to insertText, whether the note was auto-saved, and the
\* notices shown through the UI controller, in order.
pluginStopRecording(byteLength, text, options) ==
  LET processing == <<Notice("info", "Processing audio...")>>
      failed == [inserted |-> <<>>, saved |-> FALSE,
                 notices |-> Append(processing,
                                    Notice("error", "Failed to process recording"))]
  IN IF byteLength > 0
     THEN IF "transcribeRejects" \in options THEN failed
          ELSE IF HasText(text)
          THEN IF "insertTextRejects" \in options THEN failed
               ELSE [inserted |-> <<text>>,
                     saved |-> "autoSaveAfterTranscription" \in options,
                     notices |-> Append(processing, Notice("success", "Transcribed"))]
          ELSE [inserted |-> <<>>, saved |-> FALSE,
                notices |-> Append(processing,
                                   Notice("info", "No speech detected in recording"))]
     ELSE [inserted |-> <<>>, saved |-> FALSE,
           notices |-> Append(processing, Notice("error", "No audio data recorded"))]

applyPluginStopRecording ==
  /\ probe.fn = "stopRecording"
  /\ LET done == pluginStopRecording(probe.byteLength, probe.text, probe.options)
     IN answer' = [Answer("stopRecording", FALSE, <<>>, 0, 0, <<>>)
                     EXCEPT !.inserted = done.inserted, !.saved = done.saved,
                            !.notices = done.notices]
  /\ UNCHANGED probe

\* `buffer` is the caller's ArrayBuffer as the call leaves it.
applyConvertAudioBuffer ==
  /\ probe.fn = "convertAudioBufferToFloat32Array"
  /\ answer' = [Answer("convertAudioBufferToFloat32Array", FALSE, <<>>, 0, 0,
                        convertAudioBufferToFloat32Array(probe.buffer))
                   EXCEPT !.buffer = CallerBuffer(probe.buffer)]
  /\ UNCHANGED probe

applyLoadSherpaONNX ==
  /\ probe.fn = "loadSherpaONNX"
  /\ LET r == loadSherpaONNXEnv(probe.env, probe.requires)
     IN answer' = [Answer("loadSherpaONNX", FALSE, <<>>, 0, 0, <<>>)
                     EXCEPT !.env = r.env, !.during = r.during, !.module = r.module]
  /\ UNCHANGED probe

\* No helper is applied on its own in the behaviours of the two classes.
HelperIdle ==
  /\ probe = Probe("none", EmptyResult, Rat(0, 1), 0, 0, <<>>, 0, 0)
  /\ answer = NoAnswer

\* One helper and its arguments are drawn; it has not been applied yet.
ProbeDrawn ==
  /\ probe \in ExtractProbes \cup ConfidenceProbes \cup ResampleProbes
                \cup ConvertProbes \cup AnalyzeProbes \cup DurationProbes
                \cup WorkflowProbes \cup LoadProbes
  /\ answer = NoAnswer

(***************************************************************************)
(* Specifications.                                                         *)
(***************************************************************************)
Callers == {"direct", "plugin"}

TrNext ==
  \/ (\E language \in Languages : initialize(language)) /\ UNCHANGED <<recVars, uiVars, helperVars>>
  \/ loadModel /\ UNCHANGED <<recVars, uiVars, helperVars>>
  \/ (\E language \in Languages : setLanguage(language)) /\ UNCHANGED <<recVars, uiVars, helperVars>>
  \/ loadModelResume /\ UNCHANGED <<recVars, uiVars, helperVars>>
  \/ (\E audioData \in InputClips : transcribeCall(audioData)) /\ UNCHANGED <<recVars, uiVars, helperVars>>
  \/ transcribeResume /\ UNCHANGED <<recVars, uiVars, helperVars>>
  \/ transcriberDispose /\ UNCHANGED <<recVars, uiVars, helperVars>>

RecNext ==
  \/ (\E caller \in Callers, mediaDevices \in BOOLEAN :
        startRecordingCall(caller, mediaDevices)) /\ UNCHANGED <<trVars, uiVars, helperVars>>
  \/ startRecordingResume /\ UNCHANGED <<trVars, uiVars, helperVars>>
  \/ (\E p \in firing, inputData \in InputBuffers : onaudioprocess(p, inputData))
       /\ UNCHANGED <<trVars, uiVars, helperVars>>
  \/ (\E caller \in Callers : stopRecordingCall(caller)) /\ UNCHANGED <<trVars, uiVars, helperVars>>
  \/ stopRecordingClosed /\ UNCHANGED <<trVars, uiVars, helperVars>>
  \/ stopRecordingRead /\ UNCHANGED <<trVars, uiVars, helperVars>>
  \/ recorderDispose /\ UNCHANGED <<trVars, uiVars, helperVars>>

ClickNext ==
  \/ (\E mediaDevices \in BOOLEAN : ReadUndisturbed /\ handleRecordingButtonClick(mediaDevices))
       /\ UNCHANGED <<trVars, helperVars>>
  \/ ReadUndisturbed /\ startRecordingResume /\ UNCHANGED <<trVars, uiVars, helperVars>>
  \/ ReadUndisturbed /\ startRecordingOverlapResume /\ UNCHANGED <<trVars, helperVars>>
  \/ (\E p \in firing, inputData \in InputBuffers : onaudioprocess(p, inputData))
       /\ UNCHANGED <<trVars, uiVars, helperVars>>
  \/ stopRecordingClosed /\ UNCHANGED <<trVars, uiVars, helperVars>>
  \/ stopRecordingRead /\ UNCHANGED <<trVars, uiVars, helperVars>>

Init == TrInit /\ RecInit /\ HelperIdle

HelperInit == TrInit /\ RecInit /\ ProbeDrawn

HelperNext ==
  \/ applyExtractText /\ UNCHANGED <<trVars, recVars, uiVars>>
  \/ applyCalculateConfidence /\ UNCHANGED <<trVars, recVars, uiVars>>
  \/ applyResampleAudio /\ UNCHANGED <<trVars, recVars, uiVars>>
  \/ applyConvertAudioBuffer /\ UNCHANGED <<trVars, recVars, uiVars>>
  \/ applyAnalyzeAudio /\ UNCHANGED <<trVars, recVars, uiVars>>
  \/ applyClipDuration /\ UNCHANGED <<trVars, recVars, uiVars>>
  \/ applyPluginStopRecording /\ UNCHANGED <<trVars, recVars, uiVars>>
  \/ applyLoadSherpaONNX /\ UNCHANGED <<trVars, recVars, uiVars>>

Next == TrNext \/ RecNext \/ ClickNext

Spec == Init /\ [][Next]_vars

\* The transcriber and its engine alone.
SpecTranscriber == Init /\ [][TrNext]_vars

\* The recorder, its device callbacks and the plugin's hand-over alone.
SpecRecorder == Init /\ [][RecNext]_vars

\* The ribbon button: clicks handled while earlier recorder calls are still in flight.
SpecClicks == Init /\ [][ClickNext]_vars

\* The helpers, each applied once to arguments drawn from the sets above.
SpecHelpers == HelperInit /\ [][HelperNext]_vars

(***************************************************************************)
(* Properties of MoonshineTranscriber (SpecTranscriber).                   *)
(***************************************************************************)
\* The engine calls made for transcription t, in the order they were made.
TidLog(t) == SelectSeq(engineLog, LAMBDA e : e.tid = t)

Transcriptions == 1..trCalls

\* C1: for every transcribe() call that reaches the engine, the entry points are
\* invoked in the order createOfflineStream, acceptWaveformOffline,
\* decodeOfflineStream, getOfflineStreamResultAsJson, each at most once and with none
\* left out before a later one (the calls form a prefix of that order); a call that
\* failed is the last one of its transcription; and a transcription that returned a
\* result made at least the first three calls, all of which returned normally.
C1_ProtocolOrder ==
  \A t \in Transcriptions :
    LET log == TidLog(t)
        order == <<"createOfflineStream", "acceptWaveformOffline",
                   "decodeOfflineStream", "getOfflineStreamResultAsJson">>
    IN /\ Len(log) <= 4
       /\ \A i \in 1..Len(log) : log[i].fn = order[i]
       /\ \A i \in 1..Len(log) : ~log[i].ok => i = Len(log)
       /\ (trResult.tid = t /\ trResult.outcome = "ok") =>
            (Len(log) >= 3 /\ \A i \in 1..3 : log[i].ok)

\* One transcription made all four calls and another stopped after a call that
\* failed or before an entry point that was missing.
C1_Witness ==
  \E t, u \in Transcriptions :
    /\ Len(TidLog(t)) = 4
    /\ \A i \in 1..4 : TidLog(t)[i].ok
    /\ Len(TidLog(u)) \in 1..3

\* C2: each transcribe() call creates its own stream handle: two createOfflineStream
\* calls never return the same handle to the adapter, a stream handle is only ever
\* passed to the engine by the transcription that created it, and the handle a
\* transcription passes to acceptWaveformOffline, decodeOfflineStream and
\* getOfflineStreamResultAsJson is the one its own createOfflineStream returned.
C2_OwnStream ==
  /\ \A i, j \in 1..Len(engineLog) :
       (engineLog[i].stream # 0 /\ engineLog[i].stream = engineLog[j].stream)
         => engineLog[i].tid = engineLog[j].tid
  /\ \A t \in Transcriptions :
       LET log == TidLog(t)
       IN \A i \in 2..Len(log) : log[1].ok /\ log[i].stream = log[1].stream /\ log[1].stream # 0

\* Two transcriptions on the same recognizer both fed a stream to the engine.
C2_Witness ==
  \E t, u \in Transcriptions :
    /\ t # u
    /\ Len(TidLog(t)) = 4 /\ Len(TidLog(u)) = 4
    /\ TidLog(t)[1].rec = TidLog(u)[1].rec /\ TidLog(t)[1].rec # 0
    /\ TidLog(t)[2].stream # TidLog(u)[2].stream

C11_Serialized ==
  \A i, j \in 1..Len(engineLog) :
    (i < j /\ engineLog[i].tid # 0 /\ engineLog[i].tid = engineLog[j].tid) =>
      \A k \in i..j : engineLog[k].tid = engineLog[i].tid

\* The second transcribe() was called while the first was suspended, and both have
\* made all four engine calls.
C11_Witness ==
  /\ trResult.tid = 2
  /\ trResult.overlap
  /\ Len(TidLog(1)) = 4
  /\ Len(TidLog(2)) = 4


\* The positions of the engine log holding a call of entry point fn.
CallsOf(fn) == {i \in 1..Len(engineLog) : engineLog[i].fn = fn}

\* The handle returned by the latest createOfflineRecognizer call before position i
\* that returned one, or 0.
HandleBefore(i) ==
  LET made == {k \in CallsOf("createOfflineRecognizer") : k < i /\ engineLog[k].rec # 0}
  IN IF made = {} THEN 0
     ELSE engineLog[CHOOSE k \in made : \A m \in made : m <= k].rec

\* C12: once a model load has succeeded, and until dispose() or a reload for another
\* language, an initialize() or loadModel() call returns normally without invoking
\* createOfflineRecognizer; and every transcription that hands a recognizer to the
\* engine hands it the handle the latest successful createOfflineRecognizer call
\* returned, so transcriptions with no such call between them share one handle.
C12_RecognizerReused ==
  /\ lifecycle = "ready" => modelLoaded
  /\ (loadResult.op \in {"initialize", "loadModel"} /\ loadResult.lifeAtCall = "ready") =>
       (loadResult.outcome = "ok" /\ ~loadResult.created)
  /\ \A i \in CallsOf("createOfflineStream") \cup CallsOf("decodeOfflineStream") :
       engineLog[i].rec # 0 => engineLog[i].rec = HandleBefore(i)

\* After one createOfflineRecognizer call, a further loadModel() returned without a
\* second one, and two transcriptions then used the one handle.
C12_Witness ==
  /\ Cardinality(CallsOf("createOfflineRecognizer")) = 1
  /\ loadResult.op = "loadModel"
  /\ loadResult.lifeAtCall = "ready"
  /\ Len(TidLog(1)) = 4 /\ Len(TidLog(2)) = 4
  /\ TidLog(1)[1].rec = TidLog(2)[1].rec
  /\ TidLog(1)[1].rec # 0


\* The normalized samples of the clip of the latest transcription.
Normalized == convertAudioBufferToFloat32Array(trResult.audioData.buffer)

C15_FailuresSurface ==
  (trResult.tid # 0 /\ \E i \in 1..Len(TidLog(trResult.tid)) :
                           ~TidLog(trResult.tid)[i].ok) =>
    trResult.outcome = "TRANSCRIPTION_FAILED"

\* A load is suspended at its await: it will build a recognizer when it resumes.
LoadInFlight(queue) == \E i \in 1..Len(queue) : queue[i].kind = "load"

\* C13, as stated: a change of the configured language is a full reinitialize, so
\* that the next transcribe() uses a recognizer built after the change. No step that
\* changes the language leaves the transcriber loaded, still holding the handle it
\* held before the change and with no load in flight -- the state in which the next
\* transcribe() is accepted and handed the recognizer built before the change.
C13_RebuiltForLanguage ==
  [][(settings # "null" /\ settings' # "null" /\ settings' # settings) =>
       ~(/\ modelLoaded'
         /\ microphoneTranscriber' # 0
         /\ microphoneTranscriber' = microphoneTranscriber
         /\ ~LoadInFlight(pending'))]_vars

(***************************************************************************)
(* Properties of AudioRecorder and the plugin's hand-over (SpecRecorder).  *)
(***************************************************************************)
Rejected == "No recording in progress"

StopFailed == "Failed to stop recording"

\* The number of bytes of a list of chunks.
RECURSIVE SumLen(_)
SumLen(buffers) == IF buffers = <<>> THEN 0 ELSE Len(Head(buffers)) + SumLen(Tail(buffers))

\* The number of bytes of the chunks before chunk k.
BytesBefore(chunks, k) == SumLen(SubSeq(chunks, 1, k - 1))

\* C4, as stated: a stop issued right after a completed stop, or while the
\* recorder is idle, is a no-op that raises no error and returns no clip.
C4_StopIsNoOp ==
  (recResult.op = "stop" /\ (recResult.prevOp = "stop" \/ ~recResult.preFlag)) =>
    /\ recResult.outcome \notin {Rejected, StopFailed}
    /\ recResult.clip = NoClip

\* C4, amended: a stop issued right after a completed stop, or while the recorder is
\* idle, is rejected with 'No recording in progress'; it returns no clip, hands
\* nothing to the transcriber and leaves the recorder as it was.
C4_RepeatedStopRejected ==
  (recResult.op = "stop" /\ (recResult.prevOp = "stop" \/ ~recResult.preFlag)) =>
    /\ recResult.outcome = Rejected
    /\ recResult.clip = NoClip
    /\ Len(handedOver) = recResult.handedBefore
    /\ recResult.kept

\* The plugin stopped a recording and got its clip, then stopped again: the second
\* stop was rejected and handed over nothing.
C4_Witness ==
  /\ recResult.op = "stop"
  /\ recResult.prevOp = "stop"
  /\ recResult.outcome = Rejected
  /\ recResult.caller = "plugin"
  /\ Len(handedOver) = 1

\* C5: stopRecording() called while no recording is in progress rejects with
\* 'No recording in progress' and leaves the flag, the chunks and the device stream
\* (the reference and its tracks) as they were.
C5_StopWhileIdle ==
  (recResult.op = "stop" /\ ~recResult.preFlag) =>
    (recResult.outcome = Rejected /\ recResult.kept)

\* stopRecording() was rejected on a recorder that still holds the chunks of the
\* recording it returned before.
C5_Witness ==
  /\ recResult.op = "stop"
  /\ ~recResult.preFlag
  /\ recResult.outcome = Rejected
  /\ recordedChunks # <<>>
  /\ NoCallInFlight

\* C6: startRecording() called while a recording is in progress rejects with
\* 'Recording is already in progress' and leaves the flag set, the chunks and the
\* device stream (the reference and its tracks) as they were.
C6_StartWhileRecording ==
  (recResult.op = "start" /\ recResult.preFlag) =>
    (recResult.outcome = "Recording is already in progress" /\ recResult.kept)

\* startRecording() was rejected while a recording with chunks was running, and the
\* recording is still running on its open stream.
C6_Witness ==
  /\ recResult.op = "start"
  /\ recResult.preFlag
  /\ recResult.outcome = "Recording is already in progress"
  /\ isCurrentlyRecording
  /\ recordedChunks # <<>>
  /\ audioStream \in liveTracks

\* C7: stopping a recording that accumulated no chunk fails; a returned clip is never
\* empty; and the plugin passes nothing to the transcriber for a stop that failed,
\* nor ever an empty clip.
C7_EmptyCapture ==
  /\ (recResult.op = "stop" /\ recResult.preFlag /\ recResult.snapshot = <<>>) =>
       /\ recResult.outcome = StopFailed
       /\ recResult.clip = NoClip
  /\ (recResult.op = "stop" /\ recResult.outcome # "clip") =>
       Len(handedOver) = recResult.handedBefore
  /\ (recResult.op = "stop" /\ recResult.outcome = "clip") =>
       Len(recResult.clip.buffer) > 0
  /\ \A i \in 1..Len(handedOver) : Len(handedOver[i].buffer) > 0

\* The plugin stopped a recording that had received no chunk: the stop failed for
\* 'No audio data recorded'.
C7_Witness ==
  /\ recResult.op = "stop"
  /\ recResult.caller = "plugin"
  /\ recResult.preFlag
  /\ recResult.snapshot = <<>>
  /\ recResult.outcome = StopFailed
  /\ recResult.cause = "No audio data recorded"

\* C8: after a completed stopRecording(), whatever its outcome, isRecording() is
\* false until the next start, and the startRecording() that follows a completed
\* stop finds the flag clear and is not rejected as already in progress.
C8_IdleReusable ==
  /\ recResult.op = "stop" => ~isCurrentlyRecording
  /\ (recResult.op = "start" /\ recResult.prevOp = "stop") =>
       /\ ~recResult.preFlag
       /\ recResult.outcome # "Recording is already in progress"

\* A second recording was armed after the stop of the first.
C8_Witness ==
  /\ recResult.op = "start"
  /\ recResult.prevOp = "stop"
  /\ recResult.outcome = "ok"
  /\ sessionsMade = 2
  /\ ctxState[1] = "closed"
  /\ isCurrentlyRecording

\* C9: while a recording is armed the chunk list is exactly the chunks delivered, once
\* each and in arrival order; the buffer stopRecording() returns is as long as those
\* chunks together, and chunk k occupies the bytes right after the chunks before it.
C9_OrderedConcat ==
  /\ isCurrentlyRecording => recordedChunks = delivered
  /\ (recResult.op = "stop" /\ recResult.outcome = "clip") =>
       LET b == recResult.clip.buffer
       IN /\ Len(b) = SumLen(delivered)
          /\ \A k \in 1..Len(delivered) :
               SubSeq(b, BytesBefore(delivered, k) + 1,
                      BytesBefore(delivered, k) + Len(delivered[k])) = delivered[k]

\* A clip was returned for a recording of two different chunks.
C9_Witness ==
  /\ recResult.op = "stop"
  /\ recResult.outcome = "clip"
  /\ Len(delivered) = 2
  /\ delivered[1] # delivered[2]

\* C10: while stopRecording() is suspended at one of its awaits the chunk list stays
\* what it was at the stop request, whatever callbacks fire; the buffer returned is
\* the in-order concatenation of exactly the chunks appended before the stop request.
C10_StopRace ==
  /\ stopCall.pc # "idle" => recordedChunks = stopCall.snapshot
  /\ (recResult.op = "stop" /\ recResult.outcome = "clip") =>
       /\ recResult.snapshot # <<>>
       /\ recResult.clip.buffer = Concat(recResult.snapshot)

\* A clip of two chunks was returned by a stop during which a callback fired.
C10_Witness ==
  /\ recResult.op = "stop"
  /\ recResult.outcome = "clip"
  /\ recResult.late > 0
  /\ Len(recResult.snapshot) = 2

(***************************************************************************)
(* Properties of the helpers (SpecHelpers).                                *)
(***************************************************************************)
\* Every string the payload holds: the values of its string fields, or the payload
\* itself when it is a bare string.
PayloadStrings(result) ==
  {result.fields[i].str : i \in {k \in 1..Len(result.fields) :
                                   result.fields[k].type = "string"}}
  \cup (IF result.kind = "string" THEN {result.str} ELSE {})

\* The text the stated priority picks: non-blank text, else transcript, else
\* recognition, else (a bare string payload or) the first non-trivial string field,
\* else the empty string.
StatedText(result) ==
  IF NonBlank(Field(result, "text")) THEN Trim(Field(result, "text").str)
  ELSE IF NonBlank(Field(result, "transcript")) THEN Trim(Field(result, "transcript").str)
  ELSE IF NonBlank(Field(result, "recognition"))
  THEN Trim(Field(result, "recognition").str)
  ELSE IF result.kind = "string" THEN Trim(result.str)
  ELSE FirstStringValue(result.fields)

\* C16, as stated: extraction follows the priority text, transcript, recognition,
\* first non-trivial string field; when none exists the text is empty and the
\* extraction still succeeds; and the text is always a trimmed copy of a string
\* present in the payload.
C16_ExtractionPriority ==
  answer.fn = "ExtractText" =>
    /\ ~answer.throws
    /\ answer.text = StatedText(probe.payload)
    /\ answer.text = <<>> \/ \E v \in PayloadStrings(probe.payload) : answer.text = Trim(v)

\* C17: for every clip, extreme durations, rates and sizes included, the confidence
\* of the result lies in [0.1, 0.95] and the confidence of its segment equals it.
C17_ConfidenceRange ==
  answer.fn = "calculateConfidence" =>
    /\ 10 <= answer.confidence /\ answer.confidence <= 95
    /\ answer.segConfidence = answer.confidence

\* The longest, fastest, largest clip scored 0.95 and a clip of NaN duration at
\* rate 0 with an empty buffer scored 0.6.
C17_Witness ==
  /\ answer.fn = "calculateConfidence"
  /\ \/ /\ probe.duration = Rat(1, 0) /\ probe.sampleRate = 192000
        /\ probe.byteLength = 2147483647
        /\ answer.confidence = 95 /\ answer.segConfidence = 95
     \/ /\ probe.duration = Rat(0, 0) /\ probe.sampleRate = 0 /\ probe.byteLength = 0
        /\ answer.confidence = 60 /\ answer.segConfidence = 60

Finite(d) == d.den > 0

DurationLeq(d1, d2) == d1.num * d2.den <= d2.num * d1.den

\* q differs from p in at most the one input it raises.
RaisesOne(p, q) ==
  /\ Finite(p.duration) /\ Finite(q.duration)
  /\ \/ /\ DurationLeq(p.duration, q.duration)
        /\ q.sampleRate = p.sampleRate /\ q.byteLength = p.byteLength
     \/ /\ q.duration = p.duration
        /\ p.sampleRate <= q.sampleRate /\ q.byteLength = p.byteLength
     \/ /\ q.duration = p.duration
        /\ q.sampleRate = p.sampleRate /\ p.byteLength <= q.byteLength

\* q takes one input of p from its low band to its high band.
LowToHigh(p, q) ==
  \/ p.duration.num < p.duration.den /\ q.duration.num > 5 * q.duration.den
  \/ p.sampleRate < 16000 /\ q.sampleRate >= 44100
  \/ p.byteLength < 10000 /\ q.byteLength > 100000

ConfidenceOf(p) == calculateConfidence(p.duration, p.sampleRate, p.byteLength)

\* C18: the confidence is monotone: with the other two inputs fixed, a longer
\* duration, a higher rate or a larger buffer never lowers it, and taking an input
\* from its low band to its high band strictly raises it.
C18_Monotone ==
  answer.fn = "calculateConfidence" =>
    \A q \in ConfidenceProbes :
      RaisesOne(probe, q) =>
        /\ ConfidenceOf(q) >= answer.confidence
        /\ LowToHigh(probe, q) => ConfidenceOf(q) > answer.confidence

\* A half-second clip at 8 kHz in a large buffer scored 0.55; its 44.1 kHz and its
\* 5.5 s counterparts score more.
C18_Witness ==
  /\ answer.fn = "calculateConfidence"
  /\ probe.duration = Rat(1, 2) /\ probe.sampleRate = 8000 /\ probe.byteLength = 100001
  /\ answer.confidence = 55
  /\ \E q \in ConfidenceProbes :
       RaisesOne(probe, q) /\ LowToHigh(probe, q) /\ ConfidenceOf(q) = 70

\* C19: resampling from a rate to the same rate returns the samples given, equal
\* in length and in every element.
C19_ResampleIdentity ==
  (answer.fn = "resampleAudio" /\ probe.from = probe.to) =>
    answer.samples = probe.samples

\* Three samples, not all equal, came back unchanged from 48 kHz to 48 kHz.
C19_Witness ==
  /\ answer.fn = "resampleAudio"
  /\ probe.from = 48000 /\ probe.to = 48000
  /\ Len(probe.samples) = 3 /\ probe.samples[1] # probe.samples[2]
  /\ answer.samples = probe.samples

\* C20, as stated: the output of resampleAudio has exactly
\* floor(len(samples) * toRate / fromRate) samples.
C20_ResampleLength ==
  answer.fn = "resampleAudio" =>
    Len(answer.samples) = (Len(probe.samples) * probe.to) \div probe.from

\* A fraction in lowest terms.
Lowest(x) ==
  LET g == Gcd(IF x.num < 0 THEN -x.num ELSE x.num, x.den)
  IN Rat(x.num \div g, x.den \div g)

\* Every given sample has one and the same value.
ConstantInput == \A i \in 1..Len(probe.samples) : probe.samples[i] = probe.samples[1]

\* C21: resampling a constant-valued buffer, down or up, yields a buffer in which
\* every sample has that same value, the last samples (whose ceil neighbour is
\* clamped to the last input) included.
C21_ConstantPreserved ==
  (answer.fn = "resampleAudio" /\ probe.samples # <<>> /\ ConstantInput) =>
    \A j \in 1..Len(answer.samples) :
      Lowest(answer.samples[j]) = Lowest(probe.samples[1])

\* Three samples of 0.5 taken from 16 kHz to 48 kHz came back as nine samples of
\* 0.5; the last two lie past the last input sample, where the ceil neighbour is
\* clamped.
C21_Witness ==
  /\ answer.fn = "resampleAudio"
  /\ Len(probe.samples) = 3 /\ ConstantInput
  /\ probe.from = 16000 /\ probe.to = 48000
  /\ probe.samples[1] = Rat(Int16Scale \div 2, Int16Scale)
  /\ Len(answer.samples) = 9
  /\ \A j \in 1..9 : Lowest(answer.samples[j]) = Rat(1, 2)

\* The i-th 16-bit sample of a byte buffer: two's complement, low byte first.
Pcm16(buffer, i) ==
  buffer[2 * i - 1] + 256 * buffer[2 * i] - (IF buffer[2 * i] >= 128 THEN 65536 ELSE 0)

\* C22: converting an odd-length byte buffer does not fail and gives
\* floor((len + 1) / 2) samples: the samples are those of the buffer with one zero
\* byte appended, every sample before the last is the one the even-length prefix
\* gives, the last one is the last byte as a low byte, and the caller's buffer is
\* as it was.
C22_OddLengthPadded ==
  (answer.fn = "convertAudioBufferToFloat32Array" /\ Len(probe.buffer) % 2 = 1) =>
    LET len == Len(probe.buffer)
        prefix == convertAudioBufferToFloat32Array(SubSeq(probe.buffer, 1, len - 1))
    IN /\ ~answer.throws
       /\ Len(answer.samples) = (len + 1) \div 2
       /\ answer.samples = convertAudioBufferToFloat32Array(Append(probe.buffer, 0))
       /\ \A i \in 1..Len(prefix) : answer.samples[i] = prefix[i]
       /\ answer.samples[(len + 1) \div 2] = Rat(probe.buffer[len], Int16Scale)
       /\ answer.buffer = probe.buffer

\* The three bytes 00 80 FF gave the two samples -1 and 255/32768.
C22_Witness ==
  /\ answer.fn = "convertAudioBufferToFloat32Array"
  /\ probe.buffer = <<0, 128, 255>>
  /\ answer.samples = <<Rat(-Int16Scale, Int16Scale), Rat(255, Int16Scale)>>
  /\ answer.buffer = <<0, 128, 255>>

\* C23: for every even-length byte buffer read as signed 16-bit little-endian PCM,
\* sample i of the output is s_i over 32768, so that output[i] * 32768 gives s_i
\* back (within one unit), and every output lies in [-1.0, 1.0).
C23_NormalizeRoundTrip ==
  (answer.fn = "convertAudioBufferToFloat32Array" /\ Len(probe.buffer) % 2 = 0) =>
    /\ Len(answer.samples) = Len(probe.buffer) \div 2
    /\ \A i \in 1..Len(answer.samples) :
         LET x == answer.samples[i]
         IN /\ x.den = 32768
            /\ x.num = Pcm16(probe.buffer, i)
            /\ -x.den <= x.num /\ x.num < x.den

\* The four bytes FF 7F 00 80 gave the largest and the smallest sample,
\* 32767/32768 and -1.
C23_Witness ==
  /\ answer.fn = "convertAudioBufferToFloat32Array"
  /\ probe.buffer = <<255, 127, 0, 128>>
  /\ answer.samples = <<Rat(Int16Scale - 1, Int16Scale), Rat(-Int16Scale, Int16Scale)>>

\* The magnitude of a sample exceeds the rational p/q.
Exceeds(sample, p, q) ==
  (IF sample.num < 0 THEN -sample.num ELSE sample.num) * q > p * sample.den

\* Sum over i in lo..hi of (s_i - s_j)^2, in squares of the samples' unit.
RECURSIVE SquaresTo(_, _, _, _)
SquaresTo(samples, j, lo, hi) ==
  IF lo > hi THEN 0
  ELSE IF lo = hi
    THEN (samples[lo].num - samples[j].num) * (samples[lo].num - samples[j].num)
    ELSE SquaresTo(samples, j, lo, (lo + hi) \div 2)
           + SquaresTo(samples, j, (lo + hi) \div 2 + 1, hi)

\* Sum over the pairs i < j, j in lo..hi, of (s_i - s_j)^2: over the whole buffer,
\* the variance times the square of the length.
RECURSIVE Spread(_, _, _)
Spread(samples, lo, hi) ==
  IF lo > hi THEN 0
  ELSE IF lo = hi THEN SquaresTo(samples, lo, 1, lo - 1)
  ELSE Spread(samples, lo, (lo + hi) \div 2) + Spread(samples, (lo + hi) \div 2 + 1, hi)

SpreadOf(samples) == Spread(samples, 1, Len(samples))

\* The four conditions, stated over the whole buffer: more than 10% of the
\* samples above 0.001 in magnitude, max - min above 0.005, the standard deviation
\* between 0.001 and 1.0, more than 1% of the samples above 0.01 in magnitude.
FourConditions(samples) ==
  LET n == Len(samples)
      unit == samples[1].den
      one == n * n * unit * unit
  IN /\ n > 0
     /\ 10 * Cardinality({i \in 1..n : Exceeds(samples[i], 1, 1000)}) > n
     /\ \E i, j \in 1..n : 200 * (samples[i].num - samples[j].num) > unit
     /\ SpreadOf(samples) > one \div 1000000
     /\ SpreadOf(samples) < one
     /\ 100 * Cardinality({i \in 1..n : Exceeds(samples[i], 1, 100)}) > n

\* C24: the verdict of analyzeAudio is usable exactly when the four conditions
\* hold; a buffer of zeros is unusable and a buffer alternating +0.5 and -0.5 is
\* usable.
C24_QualityVerdict ==
  answer.fn = "analyzeAudio" =>
    /\ answer.qualityGood <=> FourConditions(probe.samples)
    /\ (\A i \in 1..Len(probe.samples) : probe.samples[i].num = 0) => ~answer.qualityGood
    /\ (/\ Len(probe.samples) >= 2
        /\ \A i \in 1..Len(probe.samples) :
             probe.samples[i] = Rat(IF i % 2 = 1 THEN 1024 ELSE -1024, 2048))
         => answer.qualityGood

\* Three of twenty samples at half scale, the rest silent, were found usable.
C24_Witness ==
  /\ answer.fn = "analyzeAudio"
  /\ probe.samples = Sparse(3)
  /\ answer.qualityGood

\* Two of twenty samples at half scale, 10% and no more, were found unusable.
C24_WitnessSparse ==
  /\ answer.fn = "analyzeAudio"
  /\ probe.samples = Sparse(2)
  /\ ~answer.qualityGood

\* A step in which a startRecording() call ends with AudioRecorderError
\* 'Failed to start recording'.
StartFailed ==
  /\ \/ startCall.pc = "getUserMedia" /\ startCall'.pc = "idle"
     \/ recCalls' = recCalls + 1 /\ startCall' = startCall
  /\ recResult'.op = "start"
  /\ recResult'.outcome = "Failed to start recording"

\* C25: when the microphone cannot be opened while arming (no media API, or
\* getUserMedia rejects; the same when building the audio graph throws),
\* startRecording() fails with an AudioRecorderError that carries the cause, does
\* not ask for the microphone again, and leaves the recorder idle: the flag is
\* clear, no chunk is retained and no device stream is held or left running.
C25_ArmingFailureLeavesIdle ==
  [][StartFailed =>
       /\ recResult'.cause \in {"MediaDevices API not supported", "getUserMedia rejected",
                                "audio graph"}
       /\ startCall'.pc = "idle"
       /\ recResult'.cause # "audio graph" => sessionsMade' = sessionsMade
       /\ ~isCurrentlyRecording'
       /\ recordedChunks' = <<>>
       /\ audioStream' = 0
       /\ liveTracks' = {}]_vars

\* getUserMedia rejected for a start that followed a finished recording: the
\* chunks that recording had left behind are gone and the recorder is idle.
C25_Witness ==
  /\ recResult.op = "start"
  /\ recResult.outcome = "Failed to start recording"
  /\ recResult.cause = "getUserMedia rejected"
  /\ recResult.prevOp = "stop"
  /\ ~recResult.kept
  /\ NoCallInFlight
  /\ ~isCurrentlyRecording /\ recordedChunks = <<>> /\ audioStream = 0

\* C26: a device error after capture has begun (audioContext.close() rejects
\* during stop) still finalizes what was captured: the stop call that met the
\* error returns the chunks accumulated so far as a clip, and they are not
\* discarded.
C26_DeviceErrorFinalizes ==
  (/\ recResult.op = "stop"
   /\ recResult.cause = "close rejected"
   /\ recResult.snapshot # <<>>)
    => /\ recResult.outcome = "clip"
       /\ recResult.clip.buffer = Concat(recResult.snapshot)

\* x * k for any integer k of up to 17 bits, through its factors below 2048 (the
\* top limb takes the excess).
RECURSIVE BigTimesInt(_, _)
BigTimesInt(x, k) ==
  IF k < 2048 THEN BigTimes(x, k)
  ELSE LET d == CHOOSE d \in 2..2047 : k % d = 0
       IN BigTimesInt(BigTimes(x, d), k \div d)

\* The double x * k, the exact product rounded once.
FloatTimesInt(x, k) ==
  IF k = 0 \/ x.m = Big(0) THEN FloatZero
  ELSE Narrow(BigTimesInt(x.m, k), x.e, FALSE, FALSE)

\* The doubles x and y are equal or next to each other.
Adjacent(x, y) ==
  \/ x = y
  \/ x.e = y.e /\ (x.m = BigInc(y.m) \/ y.m = BigInc(x.m))
  \/ x.e = y.e + 1 /\ x.m = Two52 /\ BigInc(y.m) = Two53
  \/ y.e = x.e + 1 /\ y.m = Two52 /\ BigInc(x.m) = Two53

\* C27 (as stated): the duration of a finalized clip is (total bytes / 2) /
\* sampleRate, so that duration * sampleRate equals the number of 16-bit samples
\* in the returned buffer.
C27_DurationTimesRate ==
  answer.fn = "duration" =>
    FloatTimesInt(answer.duration, probe.sampleRate) = FromInt(probe.byteLength \div 2)

\* C27 (amended): the duration is the double nearest to (total bytes / 2) /
\* sampleRate, a function of the byte count and the rate alone, and
\* duration * sampleRate is the number of 16-bit samples or one of the two doubles
\* next to it.
C27_DurationFromBytes ==
  answer.fn = "duration" =>
    /\ answer.duration = FloatDiv(FromInt(probe.byteLength \div 2), FromInt(probe.sampleRate))
    /\ Adjacent(FloatTimesInt(answer.duration, probe.sampleRate),
                FromInt(probe.byteLength \div 2))

\* Seven chunks of 4096 samples at 48 kHz: the duration times the rate is the
\* double above 28672.
C27_Witness ==
  /\ answer.fn = "duration"
  /\ probe.byteLength = 2 * 7 * 4096
  /\ probe.sampleRate = 48000
  /\ FloatTimesInt(answer.duration, 48000).m = BigInc(FromInt(7 * 4096).m)

(***************************************************************************)
(* Load failures and language changes of MoonshineTranscriber              *)
(* (SpecTranscriber).                                                      *)
(***************************************************************************)
\* C28: a model-load failure is fatal to the configuration: when the load call
\* that completed last (initialize, loadModel, or the reload of setLanguage)
\* failed with MODEL_LOAD_FAILED, isModelLoaded() is false, so that every
\* transcribe() is refused before any engine entry point, until a later load
\* succeeds.
C28_LoadFailureIsFatal ==
  loadResult.outcome = "MODEL_LOAD_FAILED" => ~modelLoaded

(***************************************************************************)
(* The plugin's handling of the transcription (SpecHelpers).               *)
(***************************************************************************)
\* The text has a character that is not white space.
Spoken(text) == \E i \in 1..Len(text) : text[i] # " "

Shown(kind) == \E i \in 1..Len(answer.notices) : answer.notices[i].kind = kind

C30_UnsupportedLanguage ==
  [][(loadResult' # loadResult /\ loadResult'.outcome = "UNSUPPORTED_LANGUAGE") =>
       /\ loadResult'.op = "setLanguage"
       /\ settings' = settings
       /\ modelLoaded' = modelLoaded
       /\ microphoneTranscriber' = microphoneTranscriber
       /\ recognizersMade' = recognizersMade
       /\ engineLog' = engineLog
       /\ pending' = pending
       /\ loadCalls' = loadCalls]_vars

\* setLanguage() was refused on a transcriber that is loaded for "es": the
\* language, the flag and the handle are still those of the load.
C30_Witness ==
  /\ loadResult.op = "setLanguage"
  /\ loadResult.outcome = "UNSUPPORTED_LANGUAGE"
  /\ loadResult.lifeAtCall = "ready"
  /\ settings = "es"
  /\ modelLoaded
  /\ microphoneTranscriber = 1
  /\ pending = <<>>

(***************************************************************************)
(* The waveform handed to the engine (SpecTranscriber).                    *)
(***************************************************************************)
\* C31: for every transcription that reaches the engine, the sample rate declared
\* to acceptWaveformOffline is 16000 whatever the clip's capture rate, and it is
\* the rate of the samples pushed: they number what the clip's duration comes to
\* at 16000 Hz, floor(n * 16000 / rate) for the n samples of the clip.
C31_DeclaredRate ==
  trResult.fed.given =>
    LET n == Len(trResult.audioData.buffer) \div 2
        pushed == Len(trResult.fed.samples)
    IN /\ trResult.fed.sampleRate = RequiredRate
       /\ pushed * trResult.audioData.sampleRate <= n * trResult.fed.sampleRate
       /\ n * trResult.fed.sampleRate < (pushed + 1) * trResult.audioData.sampleRate

\* A transcription of the three-sample clip captured at 48 kHz succeeded with the
\* engine told 16000 Hz and given one sample.
C31_Witness ==
  /\ trResult.outcome = "ok"
  /\ trResult.fed.given
  /\ trResult.audioData.sampleRate = 48000
  /\ Len(trResult.audioData.buffer) = 6
  /\ trResult.fed.sampleRate = 16000
  /\ Len(trResult.fed.samples) = 1

(***************************************************************************)
(* The loaded flag and the recognizer handle (SpecTranscriber).            *)
(***************************************************************************)
\* C32: in every reachable state of MoonshineTranscriber, isModelLoaded() true
\* implies that the recognizer handle is not null.
C32_LoadedHasRecognizer ==
  modelLoaded => microphoneTranscriber # 0

\* C33: when dispose() (or setLanguage()) runs while a transcribe() call is
\* suspended at its await, the resumed call does not hand a null recognizer to
\* createOfflineStream or decodeOfflineStream: no engine call of a transcription
\* was ever given the null handle.
C33_NoNullRecognizer ==
  \A i \in 1..Len(engineLog) :
    engineLog[i].fn \in {"createOfflineStream", "decodeOfflineStream"} =>
      engineLog[i].rec # 0

(***************************************************************************)
(* Properties of overlapping recorder calls and of the ribbon button       *)
(* (SpecClicks), and of the chunks of a clip (SpecRecorder).               *)
(***************************************************************************)
\* C34: at most one microphone stream is open per recorder, and it is the one the
\* recorder references: when two startRecording() calls overlap, either the second
\* is rejected or no earlier stream is left open and unreferenced; likewise at most
\* one audio-processing context is running.
C34_OneStreamOpen ==
  /\ liveTracks \subseteq {audioStream}
  /\ Cardinality({s \in 1..MaxSessions : ctxState[s] = "running"}) <= 1

\* No click handler is running: every recorder call a click made has completed.
HandlersDone ==
  startCall.pc = "idle" /\ overlapCall.pc = "idle" /\ stopCall.pc = "idle"

\* C35: once every click handler has run to completion, the UI recording flag
\* (UIController.getRecordingState()) equals the recorder's state
\* (AudioRecorder.isRecording()), also after a click whose arming failed, a click
\* whose stop failed, and a click handled while an earlier start was pending.
C35_FlagMatchesRecorder == HandlersDone => isRecording = isCurrentlyRecording

\* A step in which stopRecording() returns a clip.
StopReturnsClip ==
  /\ recResult'.op = "stop"
  /\ recResult'.outcome = "clip"
  /\ stopCall'.pc = "idle"
  /\ stopCall.pc # "idle" \/ recResult' # recResult

\* C36: a finalized clip holds only chunks captured by the session the most recent
\* successful startRecording() opened: no chunk of the clip was delivered by the
\* processor of an earlier session, and none was delivered while the recorder was
\* not armed.
C36_ClipOfCurrentSession ==
  [][StopReturnsClip =>
       /\ \A k \in 1..Len(origin) : origin[k] = audioContext
       /\ recordedChunks = delivered]_vars

(***************************************************************************)
(* Properties of resampleAudio and of the sample range (SpecHelpers).      *)
(***************************************************************************)
\* C37: resampleAudio never reads outside its input: for a non-empty input and
\* positive rates, every output index i below the output length has its floor index
\* floor(i * fromRate / toRate) within [0, len - 1], and the neighbour it blends
\* with is the next index clamped to len - 1; no output sample is computed from a
\* read outside the input.
C37_ReadsInsideInput ==
  (answer.fn = "resampleAudio" /\ probe.samples # <<>>) =>
    LET len == Len(probe.samples)
    IN /\ Cardinality(answer.reads) = Len(answer.samples)
       /\ \A rd \in answer.reads :
            /\ rd.floor \in 0..(len - 1)
            /\ (rd.i * probe.from) \div probe.to \in 0..(len - 1)
            /\ rd.ceil \in 0..(len - 1)
            /\ rd.ceil = Min(rd.floor + 1, len - 1)
       /\ \A k \in 1..Len(answer.samples) : answer.samples[k] # NaN

\* An upsampled input whose last output samples need the clamp: the floor index is
\* the last element, so the next index would lie outside.
C37_Witness ==
  /\ answer.fn = "resampleAudio"
  /\ Len(probe.samples) = MaxSamples
  /\ probe.from < probe.to
  /\ Len(answer.samples) > MaxSamples
  /\ \E rd \in answer.reads : rd.floor = MaxSamples - 1 /\ rd.ceil = rd.floor

\* A sample within [-1.0, 1.0].
InUnitRange(x) == x.den > 0 /\ -x.den <= x.num /\ x.num <= x.den

\* The blend fraction of a read, as a numerator over outputSampleRate / gcd.
BlendNumerator(rd) ==
  LET g == Gcd(probe.from, probe.to)
  IN rd.i * (probe.from \div g) - rd.floor * (probe.to \div g)

\* C38: every normalized sample lies in [-1.0, 1.0], and every sample resampled from
\* a buffer of such samples lies in [-1.0, 1.0] as well: it is a convex combination
\* of two input samples, with a blend fraction in [0, 1).
C38_SampleRange ==
  /\ answer.fn = "convertAudioBufferToFloat32Array" =>
       \A k \in 1..Len(answer.samples) : InUnitRange(answer.samples[k])
  /\ (answer.fn = "resampleAudio"
        /\ \A k \in 1..Len(probe.samples) : InUnitRange(probe.samples[k])) =>
       /\ \A k \in 1..Len(answer.samples) : InUnitRange(answer.samples[k])
       /\ \A rd \in answer.reads :
            BlendNumerator(rd) >= 0
              /\ BlendNumerator(rd) < probe.to \div Gcd(probe.from, probe.to)

\* A resampled buffer that holds the extreme -1.0 and a sample blended from two
\* different input samples, one of them -1.0.
C38_Witness ==
  /\ answer.fn = "resampleAudio"
  /\ \E k \in 1..Len(answer.samples) : answer.samples[k].num = -answer.samples[k].den
  /\ \E rd \in answer.reads :
       /\ BlendNumerator(rd) > 0
       /\ probe.samples[rd.floor + 1] = Rat(-Int16Scale, Int16Scale)
       /\ probe.samples[rd.ceil + 1] = Rat(Int16Scale - 1, Int16Scale)

(***************************************************************************)
(* Properties of loadSherpaONNX and the process environment (SpecHelpers). *)
(***************************************************************************)
\* C39: loadSherpaONNX leaves DYLD_LIBRARY_PATH as it found it on every path (the
\* native module loads, the native load fails and the npm module is used, both
\* fail): afterwards the variable holds its original value, or is absent if it was
\* absent before.
C39_LibraryPathRestored ==
  answer.fn = "loadSherpaONNX" => answer.env = probe.env

====
